---- MODULE Spec2Model ----
(***************************************************************************)
(* A model of contentfulcommander's commanderclient package: the entity    *)
(* publishing status, the MigrationClient cache and SpaceModel, the        *)
(* LoadSpaceModel loader and the MigrationExecutor (ExecuteOperation,      *)
(* ExecuteBatch and the per-kind dispatch).                                *)
(***************************************************************************)
EXTENDS Integers, Sequences, FiniteSets, TLC

VARIABLES
    remote,       \* the backend: id -> entity (a partial function)
    cache,        \* MigrationClient.cache: id -> Entity
    spaceModel,   \* MigrationClient.spaceModel: nil or its Entries / Assets buckets
    concurrency,  \* MigrationClient.concurrency
    options,      \* MigrationExecutor.options: DryRun, Confirm
    results,      \* MigrationExecutor.results
    phase,        \* ExecuteBatch: "none", "running", "returned"
    ops,          \* ExecuteBatch: the operations argument
    slots,        \* ExecuteBatch: the local results array
    semCap,       \* ExecuteBatch: capacity of sem
    pc,           \* per operation: the position of the goroutine (or loop turn) running it
    loc,          \* per operation: locals of ExecuteOperation and its callees
    hist,         \* per operation: what it has done so far (remote calls, cache writes)
    crashed,      \* the Go runtime has ended the process (fatal error)
    load,         \* LoadSpaceModel: its position, the model under construction, the loaders
    fn            \* a pure function applied on its own: its input and its output

vars == <<remote, cache, spaceModel, concurrency, options, results, phase, ops,
          slots, semCap, pc, loc, hist, crashed, load, fn>>

clientVars == <<cache, spaceModel, concurrency>>
batchVars == <<phase, ops, slots, semCap, pc, loc, hist>>

----------------------------------------------------------------------------
(* Bounds of the model *)

MaxOps == 2          \* operations in one ExecuteBatch
MaxConc == 2         \* largest argument of SetConcurrency
MaxArg == 10         \* version / publishedVersion inputs of the status functions

----------------------------------------------------------------------------
(* types.go: constants *)

StatusDraft == "draft"
StatusPublished == "published"
StatusChanged == "changed"

OperationCreate == "create"
OperationUpsert == "upsert"
OperationUpdate == "update"
OperationDelete == "delete"
OperationPublish == "publish"
OperationUnpublish == "unpublish"

Operations == {OperationCreate, OperationUpsert, OperationUpdate, OperationDelete,
               OperationPublish, OperationUnpublish}

DefaultConcurrency == 3

----------------------------------------------------------------------------
(* Entities.  An entity is its type and the two sys counters the publishing *)
(* status is derived from; client is the Client back-pointer being set.     *)

Ids == {"e1", "e2", "a1"}

TypeOf(id) == IF id = "a1" THEN "Asset" ELSE "Entry"

Entity(t, v, pv, c) == [type |-> t, version |-> v, publishedVersion |-> pv, client |-> c]

\* EntryEntity.IsPublished / AssetEntity.IsPublished
IsPublished(e) == e.version - e.publishedVersion = 1

\* EntryEntity.GetPublishingStatus / AssetEntity.GetPublishingStatus
GetPublishingStatus(e) ==
    IF e.publishedVersion = 0 THEN StatusDraft
    ELSE IF IsPublished(e) THEN StatusPublished
    ELSE StatusChanged

----------------------------------------------------------------------------
(* Partial functions (Go maps) *)

Put(m, k, v) == [x \in DOMAIN m \cup {k} |-> IF x = k THEN v ELSE m[x]]
Del(m, k) == [x \in DOMAIN m \ {k} |-> m[x]]
EmptyMap == [x \in {} |-> 0]
Merge(m1, m2) == [x \in DOMAIN m1 \cup DOMAIN m2 |-> IF x \in DOMAIN m2 THEN m2[x] ELSE m1[x]]

----------------------------------------------------------------------------
(* The backend (github.com/foomo/contentful), as the executor and the      *)
(* client call it.  Every call may fail; a call that succeeds changes the  *)
(* backend's record as the content management API does.                    *)

RemoteRec(t, v, pv) == [type |-> t, version |-> v, publishedVersion |-> pv]

\* cma.Entries.Upsert / cma.Assets.Upsert can succeed
CanUpsert(id) == TRUE

AfterUpsert(id) ==
    IF id \in DOMAIN remote
    THEN Put(remote, id, [remote[id] EXCEPT !.version = @ + 1])
    ELSE Put(remote, id, RemoteRec(TypeOf(id), 1, 0))

\* cma.Entries.Publish / Unpublish / Delete (and the Assets ones) can succeed
CanTransition(id) == id \in DOMAIN remote

AfterPublish(id) ==
    Put(remote, id, [remote[id] EXCEPT !.publishedVersion = remote[id].version,
                                       !.version = @ + 1])

AfterUnpublish(id) ==
    Put(remote, id, [remote[id] EXCEPT !.publishedVersion = 0, !.version = @ + 1])

CanDelete(id) == id \in DOMAIN remote

AfterDelete(id) == Del(remote, id)

\* cma.Entries.Get, then cma.Assets.Get: the entities RefreshEntity can be handed
\* (RefreshEntity builds them without the Client back-pointer)
Fetchable(id) ==
    IF id \in DOMAIN remote
    THEN {Entity(remote[id].type, remote[id].version, remote[id].publishedVersion, FALSE)}
    ELSE {}

----------------------------------------------------------------------------
(* MigrationClient *)

NilModel == [loaded |-> FALSE, Entries |-> EmptyMap, Assets |-> EmptyMap]

\* RefreshEntity: mc.cache[id] = entity
RefreshCacheSkipped(id, e) == cache
RefreshCache(id, e) == Put(cache, id, e)

\* RefreshEntity: mc.spaceModel.Entries[id] = entity / mc.spaceModel.Assets[id] = entity
RefreshModelEntriesAlways(id, e) ==
    IF ~spaceModel.loaded THEN spaceModel
    ELSE [spaceModel EXCEPT !.Entries = Put(@, id, e)]
RefreshModel(id, e) ==
    IF ~spaceModel.loaded THEN spaceModel
    ELSE IF e.type = "Entry"
         THEN [spaceModel EXCEPT !.Entries = Put(@, id, e)]
         ELSE [spaceModel EXCEPT !.Assets = Put(@, id, e)]

\* RemoveEntity: delete(mc.cache, id)
RemoveCache(id) == Del(cache, id)

\* RemoveEntity: delete(mc.spaceModel.Entries, id); delete(mc.spaceModel.Assets, id)
RemoveModelEntriesOnly(id) ==
    IF ~spaceModel.loaded THEN spaceModel
    ELSE [spaceModel EXCEPT !.Entries = Del(@, id)]

RemoveModel(id) ==
    IF ~spaceModel.loaded THEN spaceModel
    ELSE [spaceModel EXCEPT !.Entries = Del(@, id), !.Assets = Del(@, id)]

\* SetConcurrency
ClampConcurrency(n) == IF n < 1 THEN 1 ELSE n

SetConcurrency(n) ==
    /\ ~crashed
    /\ phase = "none"
    /\ load.pc = "idle"
    /\ concurrency' = ClampConcurrency(n)
    /\ UNCHANGED <<remote, cache, spaceModel, options, results, batchVars, crashed, load, fn>>

\* GetConcurrency
GetConcurrency == concurrency

----------------------------------------------------------------------------
(* LoadSpaceModel.  load.pc is the caller's position; load.entries and      *)
(* load.assets are the two errgroup goroutines; newEntries / newAssets are  *)
(* the buckets of the local spaceModel under construction.                  *)

LoadIdle == [pc |-> "idle", locales |-> "-", types |-> "-", entries |-> "-",
             assets |-> "-", newEntries |-> EmptyMap, newAssets |-> EmptyMap, ret |-> "-"]

RemoteOfType(t) == {id \in DOMAIN remote : remote[id].type = t}

\* loadEntries / loadAssets: &EntryEntity{Entry: &e, Client: mc}
Loaded(idset) ==
    [id \in idset |-> Entity(remote[id].type, remote[id].version,
                             remote[id].publishedVersion, TRUE)]

\* spaceModel := &SpaceModel{...}
LoadStart ==
    /\ ~crashed
    /\ phase = "none"
    /\ load.pc = "idle"
    /\ load' = [LoadIdle EXCEPT !.pc = "locales"]
    /\ UNCHANGED <<remote, clientVars, options, results, batchVars, crashed, fn>>

\* mc.loadLocales
loadLocales ==
    /\ load.pc = "locales"
    /\ \E ok \in BOOLEAN :
         load' = IF ok THEN [load EXCEPT !.pc = "types", !.locales = "ok"]
                 ELSE [load EXCEPT !.pc = "done", !.locales = "err", !.ret = "err"]
    /\ UNCHANGED <<remote, clientVars, options, results, batchVars, crashed, fn>>

\* mc.loadContentTypes, then the two g.Go calls
loadContentTypes ==
    /\ load.pc = "types"
    /\ \E ok \in BOOLEAN :
         load' = IF ok THEN [load EXCEPT !.pc = "fetch", !.types = "ok",
                                         !.entries = "run", !.assets = "run"]
                 ELSE [load EXCEPT !.pc = "done", !.types = "err", !.ret = "err"]
    /\ UNCHANGED <<remote, clientVars, options, results, batchVars, crashed, fn>>

\* mc.loadEntries: the entries reach spaceModel.Entries only after every page is in
loadEntries ==
    /\ load.pc = "fetch"
    /\ load.entries = "run"
    /\ \E ok \in BOOLEAN :
         load' = IF ok THEN [load EXCEPT !.entries = "ok",
                                         !.newEntries = Loaded(RemoteOfType("Entry"))]
                 ELSE [load EXCEPT !.entries = "err"]
    /\ UNCHANGED <<remote, clientVars, options, results, batchVars, crashed, fn>>

\* mc.loadAssets: every page goes to spaceModel.Assets as it arrives
loadAssets ==
    /\ load.pc = "fetch"
    /\ load.assets = "run"
    /\ \/ load' = [load EXCEPT !.assets = "ok",
                               !.newAssets = Loaded(RemoteOfType("Asset"))]
       \/ \E part \in SUBSET RemoteOfType("Asset") :
            load' = [load EXCEPT !.assets = "err", !.newAssets = Loaded(part)]
    /\ UNCHANGED <<remote, clientVars, options, results, batchVars, crashed, fn>>

\* g.Wait() has returned
GroupDone(l) == l.entries # "run" /\ l.assets # "run"

\* err := g.Wait(); err != nil
GroupErrNoAssets(l) == l.entries = "err"
GroupErr(l) == l.entries = "err" \/ l.assets = "err"

\* if err := g.Wait(); err != nil { return err }; mc.spaceModel = spaceModel;
\* mc.cache = make(...); maps.Copy(entries); maps.Copy(assets)
LoadFinish ==
    /\ load.pc = "fetch"
    /\ GroupDone(load)
    /\ IF GroupErr(load)
       THEN /\ load' = [load EXCEPT !.pc = "done", !.ret = "err"]
            /\ UNCHANGED <<cache, spaceModel>>
       ELSE /\ load' = [load EXCEPT !.pc = "done", !.ret = "nil"]
            /\ spaceModel' = [loaded |-> TRUE, Entries |-> load.newEntries,
                              Assets |-> load.newAssets]
            /\ cache' = Merge(load.newEntries, load.newAssets)
    /\ UNCHANGED <<remote, concurrency, options, results, batchVars, crashed, fn>>

\* LoadSpaceModel has returned: its locals are gone
LoadReturn ==
    /\ load.pc = "done"
    /\ load' = LoadIdle
    /\ UNCHANGED <<remote, clientVars, options, results, batchVars, crashed, fn>>

LoadSpaceModel == LoadStart \/ loadLocales \/ loadContentTypes \/ loadEntries
                     \/ loadAssets \/ LoadFinish \/ LoadReturn

----------------------------------------------------------------------------
(* MigrationExecutor.confirmOperation: the answer read from stdin *)

Inputs == { <<>>, <<"\n">>, <<"y", "\n">>, <<"Y", "\n">>, <<"y", "e", "s", "\n">>,
            <<"Y", "E", "S">>, <<" ", "y", " ", "\n">>, <<"n", "\n">>,
            <<"n", "o", "\n">>, <<"y", "e", "\n">> }

IsSpace(c) == c \in {" ", "\n"}

RECURSIVE TrimLeft(_)
TrimLeft(s) == IF s # <<>> /\ IsSpace(Head(s)) THEN TrimLeft(Tail(s)) ELSE s

RECURSIVE TrimRight(_)
TrimRight(s) ==
    IF s # <<>> /\ IsSpace(s[Len(s)]) THEN TrimRight(SubSeq(s, 1, Len(s) - 1)) ELSE s

\* strings.TrimSpace
TrimSpace(s) == TrimRight(TrimLeft(s))

LowerChar(c) == CASE c = "Y" -> "y" [] c = "E" -> "e" [] c = "S" -> "s" [] c = "N" -> "n"
                  [] c = "O" -> "o" [] OTHER -> c

\* strings.ToLower
ToLower(s) == [k \in 1..Len(s) |-> LowerChar(s[k])]

\* confirmOperation, from the read on: empty input accepts, then "y" / "yes"
AffirmativeExactly(input) == input = <<"y">> \/ input = <<"y", "e", "s">>
Affirmative(input) ==
    LET t == TrimSpace(input)
    IN  IF t = <<>> THEN TRUE
        ELSE ToLower(t) = <<"y">> \/ ToLower(t) = <<"y", "e", "s">>

\* the outcomes of confirmOperation: a read error, or the answer
ConfirmOutcomes ==
    {[out |-> "err", input |-> <<>>]}
        \cup {[out |-> IF Affirmative(inp) THEN "yes" ELSE "no", input |-> inp] : inp \in Inputs}

\* Confirm is off: confirmOperation is not called
NotAsked == [out |-> "-", input |-> <<>>]

----------------------------------------------------------------------------
(* MigrationExecutor: one operation *)

NoEntity == Entity("nil", 0, 0, FALSE)

Op(id, kind, e) == [EntityID |-> id, Operation |-> kind, Entity |-> e]

Result(op, ok, err) ==
    [EntityID |-> op.EntityID, Operation |-> op.Operation, Success |-> ok, Error |-> err]

NoResult == [EntityID |-> "", Operation |-> "", Success |-> FALSE, Error |-> ""]

LocInit == [success |-> FALSE, err |-> "", wasPublished |-> FALSE, cont |-> "record",
            fetched |-> NoEntity, input |-> <<>>]

HistInit == [calls |-> <<>>, confirm |-> "-", started |-> 0, wrote |-> NoEntity,
             evicted |-> FALSE]

\* updateEntity: wasPublished := op.Entity.IsPublished()
WasPublished(op) == IsPublished(op.Entity)

\* ExecuteOperation: the switch on op.Operation
Dispatch(op) ==
    CASE op.Operation = OperationUpsert -> [pc |-> "upsert", success |-> FALSE, err |-> ""]
      [] op.Operation = OperationUpdate -> [pc |-> "upsert", success |-> FALSE, err |-> ""]
      [] op.Operation = OperationPublish -> [pc |-> "publish", success |-> FALSE, err |-> ""]
      [] op.Operation = OperationUnpublish -> [pc |-> "unpublish", success |-> FALSE, err |-> ""]
      [] op.Operation = OperationDelete -> [pc |-> "delete", success |-> FALSE, err |-> ""]
      [] OTHER -> [pc |-> "record", success |-> FALSE, err |-> "unsupported operation"]

\* ExecuteOperation up to the dispatch: where the operation goes next and with what
\* result so far.  ans is confirmOperation's outcome ("-" when Confirm is off).
RouteIgnoringDryRun(op, ans) ==
    IF ans = "err"
    THEN [pc |-> "record", success |-> FALSE, err |-> "failed to read confirmation input"]
    ELSE IF ans = "no"
    THEN [pc |-> "record", success |-> FALSE, err |-> "operation cancelled by user"]
    ELSE Dispatch(op)

Route(op, ans) ==
    IF ans = "err"
    THEN [pc |-> "record", success |-> FALSE, err |-> "failed to read confirmation input"]
    ELSE IF ans = "no"
    THEN [pc |-> "record", success |-> FALSE, err |-> "operation cancelled by user"]
    ELSE IF options.DryRun
    THEN [pc |-> "record", success |-> TRUE, err |-> ""]
    ELSE Dispatch(op)

\* updateEntity: what follows the upsert's refresh
Cont(op) ==
    IF op.Operation = OperationUpdate /\ WasPublished(op) THEN "publish" ELSE "record"

Workers == 1..Len(ops)

\* the operation is inside ExecuteOperation
Inside(j) == pc[j] \notin {"wait", "done"}

\* sem <- struct{}{} can proceed
AcquirableNoSem == TRUE
Acquirable == Cardinality({j \in Workers : Inside(j)}) < semCap

\* the loop of the Confirm branch has reached operation i
TurnOfAnyone(i) == TRUE
Turn(i) == \A j \in 1..(i - 1) : pc[j] = "done"

\* ExecuteOperation, from the call to the dispatch
Begin(i) ==
    /\ ~crashed
    /\ phase = "running"
    /\ pc[i] = "wait"
    /\ IF options.Confirm THEN Turn(i) ELSE Acquirable
    /\ \E ans \in (IF options.Confirm THEN ConfirmOutcomes ELSE {NotAsked}) :
         LET r == Route(ops[i], ans.out)
         IN  /\ pc' = [pc EXCEPT ![i] = r.pc]
             /\ loc' = [loc EXCEPT ![i] = [LocInit EXCEPT !.success = r.success,
                                                          !.err = r.err,
                                                          !.wasPublished = WasPublished(ops[i]),
                                                          !.cont = Cont(ops[i]),
                                                          !.input = ans.input]]
             /\ hist' = [hist EXCEPT ![i].confirm = ans.out, ![i].started = @ + 1]
    /\ UNCHANGED <<remote, clientVars, options, results, phase, ops, slots, semCap,
                   crashed, load, fn>>

Called(i, what) == [hist EXCEPT ![i].calls = Append(@, what)]

Failed(i, e) == [loc EXCEPT ![i].success = FALSE, ![i].err = e]

\* upsertEntity / publishEntity / unpublishEntity: err = RefreshEntity(...);
\* return err == nil, err -- with err != nil
RefreshFailedIgnored(i) == [loc EXCEPT ![i].success = TRUE, ![i].err = ""]
RefreshFailed(i) == Failed(i, "entity not found")

\* upsertEntity: cma.Entries.Upsert / cma.Assets.Upsert
Upsert(i) ==
    /\ ~crashed
    /\ pc[i] = "upsert"
    /\ hist' = Called(i, "upsert")
    /\ \/ /\ CanUpsert(ops[i].EntityID)
          /\ remote' = AfterUpsert(ops[i].EntityID)
          /\ pc' = [pc EXCEPT ![i] = "get"]
          /\ UNCHANGED loc
       \/ /\ pc' = [pc EXCEPT ![i] = "record"]
          /\ loc' = Failed(i, "upsert failed")
          /\ UNCHANGED remote
    /\ UNCHANGED <<clientVars, options, results, phase, ops, slots, semCap, crashed, load, fn>>

\* publishEntity: cma.Entries.Publish / cma.Assets.Publish
Publish(i) ==
    /\ ~crashed
    /\ pc[i] = "publish"
    /\ hist' = Called(i, "publish")
    /\ \/ /\ CanTransition(ops[i].EntityID)
          /\ remote' = AfterPublish(ops[i].EntityID)
          /\ pc' = [pc EXCEPT ![i] = "get"]
          /\ loc' = [loc EXCEPT ![i].cont = "record"]
       \/ /\ pc' = [pc EXCEPT ![i] = "record"]
          /\ loc' = Failed(i, "publish failed")
          /\ UNCHANGED remote
    /\ UNCHANGED <<clientVars, options, results, phase, ops, slots, semCap, crashed, load, fn>>

\* unpublishEntity: cma.Entries.Unpublish / cma.Assets.Unpublish
Unpublish(i) ==
    /\ ~crashed
    /\ pc[i] = "unpublish"
    /\ hist' = Called(i, "unpublish")
    /\ \/ /\ CanTransition(ops[i].EntityID)
          /\ remote' = AfterUnpublish(ops[i].EntityID)
          /\ pc' = [pc EXCEPT ![i] = "get"]
          /\ UNCHANGED loc
       \/ /\ pc' = [pc EXCEPT ![i] = "record"]
          /\ loc' = Failed(i, "unpublish failed")
          /\ UNCHANGED remote
    /\ UNCHANGED <<clientVars, options, results, phase, ops, slots, semCap, crashed, load, fn>>


\* RefreshEntity: cma.Entries.Get, then cma.Assets.Get
Get(i) ==
    /\ ~crashed
    /\ pc[i] = "get"
    /\ hist' = Called(i, "get")
    /\ \/ \E e \in Fetchable(ops[i].EntityID) :
            /\ pc' = [pc EXCEPT ![i] = "write"]
            /\ loc' = [loc EXCEPT ![i].fetched = e]
       \/ /\ pc' = [pc EXCEPT ![i] = "record"]
          /\ loc' = RefreshFailed(i)
    /\ UNCHANGED <<remote, clientVars, options, results, phase, ops, slots, semCap,
                   crashed, load, fn>>

\* the goroutine of operation j is at the map writes of RefreshEntity / RemoveEntity
InCacheWrite(j) == pc[j] \in {"write", "remove"}

\* another goroutine is at the map writes too: the writes are unordered
Racing(i) == \E j \in Workers : j # i /\ InCacheWrite(j)

\* fatal error: concurrent map writes
Crash(i) ==
    /\ Racing(i)
    /\ crashed' = TRUE
    /\ UNCHANGED <<remote, clientVars, options, results, batchVars, load, fn>>

\* RefreshEntity: mc.cache[id] = entity, the spaceModel bucket, return nil; the
\* caller (upsertEntity, publishEntity, unpublishEntity, updateEntity) goes on
Write(i) ==
    /\ ~crashed
    /\ pc[i] = "write"
    /\ \/ /\ cache' = RefreshCache(ops[i].EntityID, loc[i].fetched)
          /\ spaceModel' = RefreshModel(ops[i].EntityID, loc[i].fetched)
          /\ hist' = [hist EXCEPT ![i].wrote = loc[i].fetched]
          /\ IF loc[i].cont = "publish"
             THEN /\ pc' = [pc EXCEPT ![i] = "publish"]
                  /\ UNCHANGED loc
             ELSE /\ pc' = [pc EXCEPT ![i] = "record"]
                  /\ loc' = [loc EXCEPT ![i].success = TRUE, ![i].err = ""]
          /\ UNCHANGED <<remote, concurrency, options, results, phase, ops, slots,
                         semCap, crashed, load, fn>>
       \/ Crash(i)

\* deleteEntity: cma.Entries.Delete / cma.Assets.Delete
Delete(i) ==
    /\ ~crashed
    /\ pc[i] = "delete"
    /\ hist' = Called(i, "delete")
    /\ \/ /\ CanDelete(ops[i].EntityID)
          /\ remote' = AfterDelete(ops[i].EntityID)
          /\ pc' = [pc EXCEPT ![i] = "remove"]
          /\ UNCHANGED loc
       \/ /\ pc' = [pc EXCEPT ![i] = "record"]
          /\ loc' = Failed(i, "delete failed")
          /\ UNCHANGED remote
    /\ UNCHANGED <<clientVars, options, results, phase, ops, slots, semCap, crashed, load, fn>>

\* RemoveEntity: delete from mc.cache and from the two spaceModel buckets;
\* deleteEntity returns true, nil
Remove(i) ==
    /\ ~crashed
    /\ pc[i] = "remove"
    /\ \/ /\ cache' = RemoveCache(ops[i].EntityID)
          /\ spaceModel' = RemoveModel(ops[i].EntityID)
          /\ hist' = [hist EXCEPT ![i].evicted = TRUE]
          /\ pc' = [pc EXCEPT ![i] = "record"]
          /\ loc' = [loc EXCEPT ![i].success = TRUE, ![i].err = ""]
          /\ UNCHANGED <<remote, concurrency, options, results, phase, ops, slots,
                         semCap, crashed, load, fn>>
       \/ Crash(i)

\* ExecuteBatch: the slot of the local results array the goroutine of operation i writes
SlotByCompletion(i) == Cardinality({j \in Workers : pc[j] = "done"}) + 1
Slot(i) == i

\* appendResult: me.results = append(me.results, result), under resultsMu
appendResultUnlocked(result) ==
    IF Cardinality({j \in DOMAIN pc : pc[j] = "record"}) < 2
    THEN Append(results, result)
    ELSE results
appendResult(result) == Append(results, result)

\* GetSuccessCount, GetErrorCount: a scan of me.results
RECURSIVE CountSuccess(_, _)
CountSuccess(rs, wanted) ==
    IF rs = <<>> THEN 0
    ELSE (IF Head(rs).Success = wanted THEN 1 ELSE 0) + CountSuccess(Tail(rs), wanted)

GetSuccessCount == CountSuccess(results, TRUE)

GetErrorCount == CountSuccess(results, FALSE)

\* appendResult, return result (the line read by confirmOperation is gone);
\* ExecuteBatch: results[idx] = ..., <-sem, wg.Done()
Record(i) ==
    /\ ~crashed
    /\ pc[i] = "record"
    /\ LET r == Result(ops[i], loc[i].success, loc[i].err)
       IN  /\ results' = appendResult(r)
           /\ slots' = [slots EXCEPT ![Slot(i)] = r]
    /\ pc' = [pc EXCEPT ![i] = "done"]
    /\ loc' = [loc EXCEPT ![i].input = <<>>]
    /\ UNCHANGED <<remote, clientVars, options, phase, ops, semCap, hist, crashed, load, fn>>

\* the collections a caller holds: sequences of distinct cached entities
Collections ==
    {c \in UNION {[1..n -> DOMAIN cache] : n \in 0..MaxOps} :
        \A k, m \in 1..Len(c) : c[k] = c[m] => k = m}

\* EntityCollection.ToMigrationOperations
ToMigrationOperations(coll, operation) ==
    [k \in 1..Len(coll) |-> Op(coll[k], operation, cache[coll[k]])]

Batches == {ToMigrationOperations(coll, k) : coll \in Collections, k \in Operations}

\* ExecuteBatch: results := make(...), the Confirm branch or the semaphore and the goroutines
StartBatch(o) ==
    /\ ~crashed
    /\ phase = "none"
    /\ load.pc = "idle"
    /\ phase' = "running"
    /\ ops' = o
    /\ slots' = [k \in 1..Len(o) |-> NoResult]
    /\ semCap' = IF options.Confirm THEN 0 ELSE GetConcurrency
    /\ pc' = [k \in 1..Len(o) |-> "wait"]
    /\ loc' = [k \in 1..Len(o) |-> LocInit]
    /\ hist' = [k \in 1..Len(o) |-> HistInit]
    /\ UNCHANGED <<remote, clientVars, options, results, crashed, load, fn>>

\* wg.Wait() (or the end of the loop) lets ExecuteBatch return
JoinedAny == \E j \in Workers : pc[j] = "done"
Joined == \A j \in Workers : pc[j] = "done"

\* ExecuteBatch: return results
BatchReturn ==
    /\ ~crashed
    /\ phase = "running"
    /\ Joined
    /\ phase' = "returned"
    /\ UNCHANGED <<remote, clientVars, options, results, ops, slots, semCap, pc, loc, hist,
                   crashed, load, fn>>

----------------------------------------------------------------------------
(* The specification: a client and an executor over a backend holding one   *)
(* entry and one asset.                                                     *)

NoFn == [name |-> "-", in |-> <<>>, out |-> <<>>, done |-> FALSE]

\* what the space holds at the start: a never published entry at its first version,
\* an entry changed since it was published, and a published asset
InitRemote ==
    [id \in Ids |-> CASE id = "e1" -> RemoteRec("Entry", 1, 0)
                     [] id = "e2" -> RemoteRec("Entry", 3, 1)
                     [] OTHER -> RemoteRec("Asset", 2, 1)]

\* newMigrationClient, NewMigrationExecutor
Init ==
    /\ remote = InitRemote
    /\ cache = EmptyMap
    /\ spaceModel = NilModel
    /\ concurrency = DefaultConcurrency
    /\ options \in [DryRun : BOOLEAN, Confirm : BOOLEAN]
    /\ results = <<>>
    /\ phase = "none"
    /\ ops = <<>>
    /\ slots = <<>>
    /\ semCap = 0
    /\ pc = <<>>
    /\ loc = <<>>
    /\ hist = <<>>
    /\ crashed = FALSE
    /\ load = LoadIdle
    /\ fn = NoFn

Next ==
    \/ LoadSpaceModel
    \/ \E n \in 0..MaxConc : SetConcurrency(n)
    \/ \E o \in Batches : StartBatch(o)
    \/ \E i \in Workers : Begin(i)
    \/ \E i \in Workers : Upsert(i)
    \/ \E i \in Workers : Publish(i)
    \/ \E i \in Workers : Unpublish(i)
    \/ \E i \in Workers : Get(i)
    \/ \E i \in Workers : Write(i)
    \/ \E i \in Workers : Delete(i)
    \/ \E i \in Workers : Remove(i)
    \/ \E i \in Workers : Record(i)
    \/ BatchReturn

Spec == Init /\ [][Next]_vars

----------------------------------------------------------------------------
(* The publishing status of one entity, for every pair of counters *)

StatusInputs ==
    {Entity(t, v, pv, FALSE) : t \in {"Entry", "Asset"}, v \in 0..MaxArg, pv \in 0..MaxArg}

InitStatus ==
    /\ remote = EmptyMap
    /\ cache = EmptyMap
    /\ spaceModel = NilModel
    /\ concurrency = DefaultConcurrency
    /\ options = [DryRun |-> FALSE, Confirm |-> FALSE]
    /\ results = <<>>
    /\ phase = "none"
    /\ ops = <<>>
    /\ slots = <<>>
    /\ semCap = 0
    /\ pc = <<>>
    /\ loc = <<>>
    /\ hist = <<>>
    /\ crashed = FALSE
    /\ load = LoadIdle
    /\ \E e \in StatusInputs : fn = [name |-> "status", in |-> e, out |-> <<>>, done |-> FALSE]

\* e.GetPublishingStatus(), e.IsPublished()
ApplyStatus ==
    /\ fn.name = "status"
    /\ ~fn.done
    /\ fn' = [fn EXCEPT !.out = [status |-> GetPublishingStatus(fn.in),
                                 isPublished |-> IsPublished(fn.in)],
                        !.done = TRUE]
    /\ UNCHANGED <<remote, cache, spaceModel, concurrency, options, results, phase, ops,
                   slots, semCap, pc, loc, hist, crashed, load>>

NextStatus == ApplyStatus

SpecStatus == InitStatus /\ [][NextStatus]_vars

----------------------------------------------------------------------------
(* Claims *)

Mutations == {"upsert", "publish", "unpublish", "delete"}

PublishCalled(i) == \E k \in 1..Len(hist[i].calls) : hist[i].calls[k] = "publish"

Count(seq, x) == Cardinality({k \in 1..Len(seq) : seq[k] = x})

\* the cache and the buckets as LoadSpaceModel left them before the batch
LoadedInit(id) ==
    Entity(InitRemote[id].type, InitRemote[id].version, InitRemote[id].publishedVersion, TRUE)

Bucket(id) == IF TypeOf(id) = "Entry" THEN spaceModel.Entries ELSE spaceModel.Assets

\* C1: an update (dry-run and confirm off) calls the remote publish exactly when the
\* entity's publishing status before the upsert was Published (and the upsert with its
\* refresh went through); a Draft or Changed entity is never published by an update.
C1_UpdatePublishesOnlyPublished ==
    (~options.DryRun /\ ~options.Confirm) =>
        \A i \in Workers :
            (ops[i].Operation = OperationUpdate /\ pc[i] = "done") =>
                LET status == GetPublishingStatus(ops[i].Entity)
                IN  /\ PublishCalled(i) => status = StatusPublished
                    /\ (status = StatusPublished /\ hist[i].wrote # NoEntity)
                         => PublishCalled(i)

\* C2: GetPublishingStatus is draft when publishedVersion = 0, else published when
\* version - publishedVersion = 1, else changed; and IsPublished is true exactly when
\* GetPublishingStatus is published.
C2_StatusAndIsPublishedAgree ==
    (fn.name = "status" /\ fn.done) =>
        LET e == fn.in
            expected == IF e.publishedVersion = 0 THEN StatusDraft
                        ELSE IF e.version - e.publishedVersion = 1 THEN StatusPublished
                        ELSE StatusChanged
        IN  /\ fn.out.status = expected
            /\ fn.out.isPublished <=> (fn.out.status = StatusPublished)

\* C3: the list ExecuteBatch returns is as long as its input and holds, at every index
\* i, the result of operations[i], whatever the order in which the operations finished.
C3_ResultsInInputOrder ==
    phase = "returned" =>
        /\ Len(slots) = Len(ops)
        /\ \A i \in Workers :
             /\ slots[i].EntityID = ops[i].EntityID
             /\ slots[i].Operation = ops[i].Operation
             /\ slots[i] = Result(ops[i], loc[i].success, loc[i].err)

\* two operations of a returned concurrent batch finished in the reverse of input order
C3_Witness ==
    /\ phase = "returned"
    /\ ~options.Confirm
    /\ Len(ops) >= 2
    /\ results[1].EntityID = ops[2].EntityID
    /\ slots[1].Success # slots[2].Success

\* C4: in a batch without confirmation, the operations inside ExecuteOperation at the
\* same time are never more than the concurrency level read when the batch started.
C4_BoundedConcurrency ==
    (phase = "running" /\ ~options.Confirm) =>
        /\ semCap = GetConcurrency
        /\ Cardinality({j \in Workers : Inside(j)}) <= semCap

\* the semaphore is full and an operation waits for it
C4_Witness ==
    /\ phase = "running"
    /\ ~options.Confirm
    /\ Len(ops) > semCap
    /\ Cardinality({j \in Workers : Inside(j)}) = semCap
    /\ \E j \in Workers : pc[j] = "wait"

\* C5: ExecuteBatch returns only after every operation has finished, each operation is
\* executed exactly once whatever the others' results, and no remote mutation is retried.
C5_EveryOperationOnce ==
    /\ \A i \in Workers :
         /\ hist[i].started <= 1
         /\ \A m \in Mutations : Count(hist[i].calls, m) <= 1
    /\ phase = "returned" =>
         \A i \in Workers : pc[i] = "done" /\ hist[i].started = 1

\* a batch has returned in which the first operation failed at the backend and a later
\* one went through
C5_Witness ==
    /\ phase = "returned"
    /\ ~options.DryRun
    /\ Len(ops) >= 2
    /\ ~slots[1].Success
    /\ hist[1].calls # <<>>
    /\ slots[2].Success

\* the entity the backend would return for id now, as RefreshEntity wraps it
Fresh(id) == Entity(remote[id].type, remote[id].version, remote[id].publishedVersion, FALSE)

LastCall(i) == hist[i].calls[Len(hist[i].calls)]

\* C6 as stated: with DryRun enabled every operation is recorded with Success = true
\* and no error, without any remote call.
C6_DryRunAlwaysSucceeds ==
    options.DryRun =>
        \A i \in Workers :
            pc[i] = "done" =>
                /\ slots[i].Success
                /\ slots[i].Error = ""
                /\ hist[i].calls = <<>>

\* what a dry run records: success, unless the confirmation was declined or unreadable
C6_DryRunRecords ==
    options.DryRun =>
        \A i \in Workers :
            /\ hist[i].calls = <<>>
            /\ hist[i].wrote = NoEntity
            /\ ~hist[i].evicted
            /\ pc[i] \in {"wait", "record", "done"}
            /\ pc[i] = "done" =>
                 /\ slots[i].Success <=> hist[i].confirm \in {"-", "yes"}
                 /\ slots[i].Success => slots[i].Error = ""
                 /\ ~slots[i].Success =>
                      /\ options.Confirm
                      /\ slots[i].Error \in {"operation cancelled by user",
                                             "failed to read confirmation input"}

\* C6: with DryRun enabled, ExecuteOperation for any operation kind (an unsupported one
\* included) makes no remote call and leaves the backend, the cache and the SpaceModel
\* unchanged; it records Success = true and no error unless Confirm is enabled too and
\* the confirmation was declined or could not be read, which is recorded as a failure.
C6_DryRunTouchesNothing ==
    /\ []C6_DryRunRecords
    /\ [][(options.DryRun /\ phase = "running")
            => UNCHANGED <<remote, cache, spaceModel>>]_vars

\* a dry run of an unsupported kind and of a confirmed one, both recorded as successes
C6_Witness ==
    /\ options.DryRun
    /\ phase = "returned"
    /\ Len(ops) >= 2
    /\ ops[1].Operation = OperationCreate
    /\ \A i \in Workers : slots[i].Success /\ slots[i].Error = ""
    /\ cache = [id \in Ids |-> LoadedInit(id)]

\* C7: no two workers of a concurrent batch are at the map writes of RefreshEntity or
\* RemoveEntity at the same time.
C7_CacheWritesExclusive ==
    Cardinality({j \in Workers : InCacheWrite(j)}) <= 1

\* C8: a non-dry-run upsert, update, publish or unpublish recorded as a success has
\* re-fetched the entity after its last remote mutation and the cache holds exactly the
\* re-fetched entity (the backend's current version); when the re-fetch after a
\* successful mutation fails, the operation is recorded as failed.
C8_SuccessMeansRefreshed ==
    ~options.DryRun =>
        \A i \in Workers :
            (/\ pc[i] = "done"
             /\ ops[i].Operation \in {OperationUpsert, OperationUpdate, OperationPublish,
                                      OperationUnpublish}) =>
                LET id == ops[i].EntityID
                    n == Len(hist[i].calls)
                IN  /\ slots[i].Success =>
                         /\ n >= 2
                         /\ hist[i].calls[n] = "get"
                         /\ hist[i].calls[n - 1] \in Mutations
                         /\ id \in DOMAIN cache
                         /\ cache[id] = Fresh(id)
                         /\ hist[i].wrote = cache[id]
                         /\ Bucket(id)[id] = cache[id]
                    /\ (n >= 2 /\ hist[i].calls[n] = "get" /\ hist[i].wrote # Fresh(id)) =>
                         /\ ~slots[i].Success
                         /\ slots[i].Error = "entity not found"

\* one operation refreshed the cache to a newer version, another lost its re-fetch
C8_Witness ==
    /\ phase = "returned"
    /\ ~options.DryRun
    /\ \E i \in Workers :
         /\ ops[i].Operation = OperationPublish
         /\ slots[i].Success
         /\ cache[ops[i].EntityID].version > ops[i].Entity.version
    /\ \E j \in Workers :
         /\ Len(hist[j].calls) = 2
         /\ LastCall(j) = "get"
         /\ ~slots[j].Success

\* C9: a delete evicts the id from the cache and from both SpaceModel buckets exactly
\* when the remote delete succeeded, and is then recorded as a success; otherwise it is
\* recorded as failed with the id's cache and bucket entries as they were; the entries
\* of every id no delete has evicted are unchanged.
C9_DeleteEvictsIffRemoteDeleted ==
    (Len(ops) > 0 /\ ops[1].Operation = OperationDelete /\ ~options.DryRun) =>
        /\ \A i \in Workers :
             LET id == ops[i].EntityID
             IN  /\ hist[i].evicted =>
                      /\ hist[i].calls = <<"delete">>
                      /\ id \notin DOMAIN remote
                      /\ id \notin DOMAIN cache
                      /\ id \notin DOMAIN spaceModel.Entries
                      /\ id \notin DOMAIN spaceModel.Assets
                 /\ pc[i] = "done" =>
                      /\ slots[i].Success <=> hist[i].evicted
                      /\ hist[i].evicted <=> id \notin DOMAIN remote
                      /\ ~slots[i].Success => slots[i].Error # ""
        /\ \A id \in Ids :
             \/ \E i \in Workers : ops[i].EntityID = id /\ hist[i].evicted
             \/ /\ id \in DOMAIN cache
                /\ cache[id] = LoadedInit(id)
                /\ id \in DOMAIN Bucket(id)
                /\ Bucket(id)[id] = LoadedInit(id)

\* the asset was deleted and evicted, the delete of an entry failed at the backend
C9_Witness ==
    /\ phase = "returned"
    /\ ~options.DryRun
    /\ Len(ops) = 2
    /\ \E i, j \in Workers :
         /\ ops[i].Operation = OperationDelete
         /\ ops[i].EntityID = "a1"
         /\ slots[i].Success
         /\ "a1" \notin DOMAIN cache
         /\ hist[j].calls = <<"delete">>
         /\ ~slots[j].Success
         /\ ops[j].EntityID \in DOMAIN cache

AllLoaded(l) == l.locales = "ok" /\ l.types = "ok" /\ l.entries = "ok" /\ l.assets = "ok"

SomeLoadFailed(l) ==
    l.locales = "err" \/ l.types = "err" \/ l.entries = "err" \/ l.assets = "err"

C10_ReturnsTheError ==
    load.pc = "done" =>
        /\ load.ret = "err" <=> SomeLoadFailed(load)
        /\ load.ret = "nil" <=>
             /\ AllLoaded(load)
             /\ spaceModel = [loaded |-> TRUE, Entries |-> Loaded(RemoteOfType("Entry")),
                              Assets |-> Loaded(RemoteOfType("Asset"))]
             /\ cache = Merge(spaceModel.Entries, spaceModel.Assets)

\* C10: while LoadSpaceModel runs, the client's SpaceModel and cache change only in the
\* step after all four loads (locales, content types, entries, assets) came back without
\* error, and then to the complete new model; when one of the four fails LoadSpaceModel
\* returns an error and the SpaceModel and cache are what they were before the call.
C10_NoPartialModel ==
    /\ []C10_ReturnsTheError
    /\ [][(load.pc # "idle" /\ <<cache, spaceModel>>' # <<cache, spaceModel>>)
            => /\ AllLoaded(load)
               /\ load'.ret = "nil"
               /\ spaceModel' = [loaded |-> TRUE, Entries |-> load.newEntries,
                                 Assets |-> load.newAssets]]_vars
    /\ [][(load.pc # "idle" /\ load'.ret = "err")
            => UNCHANGED <<cache, spaceModel>>]_vars

\* a reload whose asset loader failed after the entries were in has returned its error,
\* with the model of the earlier load still in place
C10_Witness ==
    /\ load.pc = "done"
    /\ load.ret = "err"
    /\ load.entries = "ok"
    /\ load.assets = "err"
    /\ load.newAssets = EmptyMap
    /\ spaceModel.loaded
    /\ DOMAIN cache = Ids

----------------------------------------------------------------------------
(* MigrationClient.loadEntries, page by page.  fn holds the call's locals:   *)
(* limit, the number of items in allItems, the pages the collection has      *)
(* served, and what the backend holds (total entries).                       *)

\* the sizes of the spaces the entries are loaded from
Totals == {0, 5, 16, 40, 530}

FirstLimit == 512

\* the messages of a contentful.ErrorResponse, word by word
Messages == { <<"Response", "size", "too", "big">>,
              <<"Too", "many", "links">>,
              <<"Bad", "request:", "Response", "size", "too", "big.">>,
              <<"Rate", "limit", "exceeded">>,
              <<"Too", "many", "requests">> }

\* strings.Contains
Contains(msg, sub) ==
    \E k \in 0..(Len(msg) - Len(sub)) : SubSeq(msg, k + 1, k + Len(sub)) = sub

\* the errors collection.Next() can return: an ErrorResponse with its Message, or
\* an error of another type (transport, cancelled context)
NextErrors ==
    {[typed |-> TRUE, msg |-> m] : m \in Messages}
        \cup {[typed |-> FALSE, msg |-> m] : m \in {<<"context", "canceled">>,
                                                    <<"Too", "many", "links">>}}

NoError == [typed |-> FALSE, msg |-> <<>>]

\* strings.Contains(msg, "Response size too big") || strings.Contains(msg, "Too many links")
Oversized(msg) ==
    \/ Contains(msg, <<"Response", "size", "too", "big">>)
    \/ Contains(msg, <<"Too", "many", "links">>)

\* ... && limit >= 20
RetryAllowedAlways(limit) == TRUE
RetryAllowed(limit) == limit >= 20

\* if limit == 0 { limit = 512 }
EffectiveLimit(limit) == IF limit = 0 THEN FirstLimit ELSE limit

\* a call of loadEntries with this limit: a new collection and an empty allItems
EntriesCall(f, limit) ==
    [f EXCEPT !.limit = EffectiveLimit(limit), !.items = 0, !.served = 0,
              !.limits = Append(@, EffectiveLimit(limit))]

InitEntries ==
    /\ remote = EmptyMap
    /\ cache = EmptyMap
    /\ spaceModel = NilModel
    /\ concurrency = DefaultConcurrency
    /\ options = [DryRun |-> FALSE, Confirm |-> FALSE]
    /\ results = <<>>
    /\ phase = "none"
    /\ ops = <<>>
    /\ slots = <<>>
    /\ semCap = 0
    /\ pc = <<>>
    /\ loc = <<>>
    /\ hist = <<>>
    /\ crashed = FALSE
    /\ load = LoadIdle
    /\ \E t \in Totals :
         fn = EntriesCall([name |-> "loadEntries", total |-> t, limit |-> 0, items |-> 0,
                           served |-> 0, limits |-> <<>>, retries |-> 0, last |-> NoError,
                           stored |-> 0, ret |-> "-", err |-> NoError, done |-> FALSE],
                          FirstLimit)

\* the items of the page collection.Next() serves
PageSize(f) ==
    IF f.total - f.served < f.limit THEN f.total - f.served ELSE f.limit

\* collection.Next() returns a page: append it; a short page ends the loop, the
\* entries go to spaceModel.Entries and loadEntries returns nil
EntriesPage ==
    /\ fn.name = "loadEntries"
    /\ ~fn.done
    /\ LET n == PageSize(fn)
           f == [fn EXCEPT !.items = @ + n, !.served = @ + n, !.last = NoError]
       IN  fn' = IF n < fn.limit
                 THEN [f EXCEPT !.stored = f.items, !.ret = "nil", !.done = TRUE]
                 ELSE f
    /\ UNCHANGED <<remote, cache, spaceModel, concurrency, options, results, phase, ops,
                   slots, semCap, pc, loc, hist, crashed, load>>

\* collection.Next() returns an error: retry with limit/2, or return the error
EntriesError ==
    /\ fn.name = "loadEntries"
    /\ ~fn.done
    /\ \E e \in NextErrors :
         fn' = IF e.typed /\ Oversized(e.msg) /\ RetryAllowed(fn.limit)
               THEN EntriesCall([fn EXCEPT !.retries = @ + 1, !.last = e], fn.limit \div 2)
               ELSE [fn EXCEPT !.last = e, !.ret = "err", !.err = e, !.done = TRUE]
    /\ UNCHANGED <<remote, cache, spaceModel, concurrency, options, results, phase, ops,
                   slots, semCap, pc, loc, hist, crashed, load>>

NextEntries == EntriesPage \/ EntriesError

\* the backend answers every request, and a load that got its pages goes on
SpecEntries == InitEntries /\ [][NextEntries]_vars /\ WF_vars(NextEntries)

PageSizes == {512, 256, 128, 64, 32, 16}

C11_Bounded ==
    fn.name = "loadEntries" =>
        /\ fn.limit \in PageSizes
        /\ fn.retries <= 5
        /\ Len(fn.limits) = fn.retries + 1
        /\ fn.limits[1] = 512
        /\ \A k \in 1..fn.retries : fn.limits[k + 1] * 2 = fn.limits[k]
        /\ fn.items <= fn.total
        /\ (fn.done /\ fn.ret = "nil") => (fn.stored = fn.total /\ fn.items = fn.total)
        /\ (fn.done /\ fn.ret = "err") => (fn.stored = 0 /\ fn.err = fn.last)

\* the error of this step is one loadEntries retries on
C11_Retryable(e, limit) ==
    /\ e.typed
    /\ \/ Contains(e.msg, <<"Response", "size", "too", "big">>)
       \/ Contains(e.msg, <<"Too", "many", "links">>)
    /\ limit >= 20

C11_RetryStep ==
    (fn'.name = "loadEntries" /\ fn'.last # NoError) =>
        IF C11_Retryable(fn'.last, fn.limit)
        THEN /\ ~fn'.done
             /\ fn'.retries = fn.retries + 1
             /\ fn'.limit * 2 = fn.limit
             /\ fn'.items = 0
             /\ fn'.served = 0
        ELSE /\ fn'.done
             /\ fn'.ret = "err"
             /\ fn'.err = fn'.last
             /\ fn'.retries = fn.retries

----------------------------------------------------------------------------
(* The generic field accessors of Entity.  A field value is Go's any: a      *)
(* record tagged with its dynamic type.  fn.field is the shape of the field  *)
(* "f" of every entry; the accessors are applied to entities of the cache.   *)

MaxRefs == 2         \* items in an array-valued field

Locales == {"en", "de"}

Nil == [k |-> "nil"]
Str(s) == [k |-> "string", v |-> s]
Link(id) == [k |-> "link", id |-> id]

\* link targets: cached entities and an id the space does not hold
LinkIds == Ids \cup {"x9"}

\* what an array holds: link descriptors, a map without sys.id, a string
Items == {Link(id) : id \in LinkIds} \cup {[k |-> "map"], Str("s")}

Lists == UNION {[1..n -> Items] : n \in 0..MaxRefs}

Values ==
    {Nil, Str("s"), Str(""), [k |-> "float", n |-> 1], [k |-> "bool", b |-> TRUE],
     [k |-> "map"]}
        \cup {Link(id) : id \in LinkIds}
        \cup {[k |-> "list", items |-> l] : l \in Lists}

\* Entry.Fields["f"]: absent, a scalar where the locale map should be, or a locale map
FieldShapes ==
    {[k |-> "absent"], [k |-> "scalar"], [k |-> "locmap", vals |-> EmptyMap]}
        \cup {[k |-> "locmap", vals |-> [l \in {"en"} |-> v]] : v \in Values}

Panic == [k |-> "panic"]

\* EntryEntity.GetFieldValue / AssetEntity.GetFieldValue
GetFieldValue(e, fld, locale) ==
    IF e.type = "Asset" THEN Nil
    ELSE IF fld.k = "locmap" /\ locale \in DOMAIN fld.vals THEN fld.vals[locale]
    ELSE Nil

\* GetFieldValueWithFallback
GetFieldValueWithFallback(e, fld, locale, defaultLocale) ==
    IF GetFieldValue(e, fld, locale) # Nil THEN GetFieldValue(e, fld, locale)
    ELSE GetFieldValue(e, fld, defaultLocale)

\* GetFieldValueAsString / AsFloat64 / AsBool: the type assertion or the zero value
GetFieldValueAsString(e, fld, locale) ==
    IF GetFieldValue(e, fld, locale).k = "string" THEN GetFieldValue(e, fld, locale)
    ELSE Str("")

GetFieldValueAsFloat64(e, fld, locale) ==
    IF GetFieldValue(e, fld, locale).k = "float" THEN GetFieldValue(e, fld, locale)
    ELSE [k |-> "float", n |-> 0]

GetFieldValueAsBool(e, fld, locale) ==
    IF GetFieldValue(e, fld, locale).k = "bool" THEN GetFieldValue(e, fld, locale)
    ELSE [k |-> "bool", b |-> FALSE]

\* convertToReference: a map with sys.id and sys.type, else nil
convertToReference(v) == IF v.k = "link" THEN [k |-> "ref", id |-> v.id] ELSE Nil

\* GetFieldValueAsReference
GetFieldValueAsReference(e, fld, locale) ==
    IF e.type = "Asset" THEN Nil ELSE convertToReference(GetFieldValue(e, fld, locale))

RECURSIVE ConvertAll(_)
ConvertAll(items) ==
    IF items = <<>> THEN <<>>
    ELSE IF convertToReference(Head(items)) # Nil
         THEN <<convertToReference(Head(items)).id>> \o ConvertAll(Tail(items))
         ELSE ConvertAll(Tail(items))

\* GetFieldValueAsReferences: the ids of the references, in order
GetFieldValueAsReferences(e, fld, locale) ==
    LET v == GetFieldValue(e, fld, locale)
    IN  IF v = Nil THEN <<>>
        ELSE IF v.k = "list" THEN ConvertAll(v.items)
        ELSE ConvertAll(<<v>>)

\* MigrationClient.GetEntity
GetEntity(id) ==
    IF id \in DOMAIN cache THEN [k |-> "entity", found |-> TRUE, e |-> cache[id]]
    ELSE [k |-> "entity", found |-> FALSE, e |-> NoEntity]

\* GetFieldValueAsReferencedEntity: ee.Client.GetEntity(reference.Sys.ID)
GetFieldValueAsReferencedEntity(e, fld, locale) ==
    IF e.type = "Asset" \/ GetFieldValueAsReference(e, fld, locale) = Nil
    THEN [k |-> "entity", found |-> FALSE, e |-> NoEntity]
    ELSE IF ~e.client THEN Panic
    ELSE GetEntity(GetFieldValueAsReference(e, fld, locale).id)

RECURSIVE Resolve(_)
Resolve(ids) ==
    IF ids = <<>> THEN <<>>
    ELSE IF GetEntity(Head(ids)).found
         THEN <<[id |-> Head(ids), e |-> cache[Head(ids)]]>> \o Resolve(Tail(ids))
         ELSE Resolve(Tail(ids))

\* GetFieldValueAsReferencedEntities: the loop calls ee.Client.GetEntity per reference
GetFieldValueAsReferencedEntities(e, fld, locale) ==
    LET refs == GetFieldValueAsReferences(e, fld, locale)
    IN  IF e.type = "Asset" \/ refs = <<>> THEN [k |-> "collection", items |-> <<>>]
        ELSE IF ~e.client THEN Panic
        ELSE [k |-> "collection", items |-> Resolve(refs)]

\* GetTitle, with "f" the display field of the entry's content type
GetTitle(e, fld, locale) ==
    IF e.type = "Entry" /\ e.client /\ spaceModel.loaded
    THEN GetFieldValueAsString(e, fld, locale)
    ELSE Str("")

Accessors == {"GetFieldValue", "GetFieldValueWithFallback", "GetFieldValueAsString",
              "GetFieldValueAsFloat64", "GetFieldValueAsBool", "GetFieldValueAsReference",
              "GetFieldValueAsReferences", "GetFieldValueAsReferencedEntity",
              "GetFieldValueAsReferencedEntities", "GetTitle"}

Call(acc, e, fld, locale) ==
    CASE acc = "GetFieldValue" -> GetFieldValue(e, fld, locale)
      [] acc = "GetFieldValueWithFallback" -> GetFieldValueWithFallback(e, fld, locale, "en")
      [] acc = "GetFieldValueAsString" -> GetFieldValueAsString(e, fld, locale)
      [] acc = "GetFieldValueAsFloat64" -> GetFieldValueAsFloat64(e, fld, locale)
      [] acc = "GetFieldValueAsBool" -> GetFieldValueAsBool(e, fld, locale)
      [] acc = "GetFieldValueAsReference" -> GetFieldValueAsReference(e, fld, locale)
      [] acc = "GetFieldValueAsReferences" ->
            [k |-> "refs", ids |-> GetFieldValueAsReferences(e, fld, locale)]
      [] acc = "GetFieldValueAsReferencedEntity" ->
            GetFieldValueAsReferencedEntity(e, fld, locale)
      [] acc = "GetFieldValueAsReferencedEntities" ->
            GetFieldValueAsReferencedEntities(e, fld, locale)
      [] OTHER -> GetTitle(e, fld, locale)

\* the client after LoadSpaceModel, every entry carrying the field
InitAccess ==
    /\ remote = InitRemote
    /\ cache = Loaded(Ids)
    /\ spaceModel = [loaded |-> TRUE, Entries |-> Loaded({"e1", "e2"}),
                     Assets |-> Loaded({"a1"})]
    /\ concurrency = DefaultConcurrency
    /\ options = [DryRun |-> FALSE, Confirm |-> FALSE]
    /\ results = <<>>
    /\ phase = "none"
    /\ ops = <<>>
    /\ slots = <<>>
    /\ semCap = 0
    /\ pc = <<>>
    /\ loc = <<>>
    /\ hist = <<>>
    /\ crashed = FALSE
    /\ load = LoadIdle
    /\ \E fld \in FieldShapes :
         fn = [name |-> "access", field |-> fld, acc |-> "-", id |-> "-", locale |-> "-",
               out |-> Nil, done |-> FALSE]

\* RefreshEntity(id), the fetch succeeding
AccessRefresh(id) ==
    /\ fn.name = "access"
    /\ ~fn.done
    /\ id \in DOMAIN cache
    /\ cache[id].client
    /\ \E e \in Fetchable(id) :
         /\ cache' = RefreshCache(id, e)
         /\ spaceModel' = RefreshModel(id, e)
    /\ UNCHANGED <<remote, concurrency, options, results, phase, ops, slots, semCap, pc,
                   loc, hist, crashed, load, fn>>

\* RemoveEntity(id)
AccessRemove(id) ==
    /\ fn.name = "access"
    /\ ~fn.done
    /\ id \in DOMAIN cache
    /\ cache' = RemoveCache(id)
    /\ spaceModel' = RemoveModel(id)
    /\ UNCHANGED <<remote, concurrency, options, results, phase, ops, slots, semCap, pc,
                   loc, hist, crashed, load, fn>>

\* an accessor is called on an entity of the cache
Access(acc, id, locale) ==
    /\ fn.name = "access"
    /\ ~fn.done
    /\ id \in DOMAIN cache
    /\ fn' = [fn EXCEPT !.acc = acc, !.id = id, !.locale = locale,
                        !.out = Call(acc, cache[id], fn.field, locale), !.done = TRUE]
    /\ UNCHANGED <<remote, cache, spaceModel, concurrency, options, results, phase, ops,
                   slots, semCap, pc, loc, hist, crashed, load>>

NextAccess ==
    \/ \E id \in Ids : AccessRefresh(id)
    \/ \E id \in Ids : AccessRemove(id)
    \/ \E acc \in Accessors, id \in Ids, locale \in Locales : Access(acc, id, locale)

SpecAccess == InitAccess /\ [][NextAccess]_vars

\* C12: no generic accessor panics, on any entity of the cache and any field shape.
C12_AccessorsNeverPanic ==
    (fn.name = "access" /\ fn.done) => fn.out # Panic

\* the field value at the locale is a list of link descriptors only
AllLinks(fld, locale) ==
    /\ fld.k = "locmap"
    /\ locale \in DOMAIN fld.vals
    /\ fld.vals[locale].k = "list"
    /\ \A n \in 1..Len(fld.vals[locale].items) : fld.vals[locale].items[n].k = "link"

RECURSIVE CachedOf(_)
CachedOf(items) ==
    IF items = <<>> THEN <<>>
    ELSE IF Head(items).id \in DOMAIN cache
         THEN <<[id |-> Head(items).id, e |-> cache[Head(items).id]]>> \o CachedOf(Tail(items))
         ELSE CachedOf(Tail(items))

\* C13: on an entry whose field holds a list of N link descriptors of which K have ids
\* in the cache, GetFieldValueAsReferencedEntities returns exactly those K cached
\* entities, in the order of their descriptors (an empty collection when K = 0).
C13_ExactlyTheCachedReferences ==
    (/\ fn.name = "access"
     /\ fn.done
     /\ fn.acc = "GetFieldValueAsReferencedEntities"
     /\ fn.id \in DOMAIN cache
     /\ cache[fn.id].type = "Entry"
     /\ AllLinks(fn.field, fn.locale)) =>
        /\ fn.out.k = "collection"
        /\ fn.out.items = CachedOf(fn.field.vals[fn.locale].items)

----------------------------------------------------------------------------
(* Rich text (richtext_internal.go).  A RichTextNode is a record; Content is *)
(* a sequence of nodes.  A path is the string the code formats, kept as its  *)
(* sequence of characters.                                                   *)

MaxBlocks == 2       \* top-level nodes of a document

nodeTypeDocument == "document"
nodeTypeParagraph == "paragraph"
nodeTypeText == "text"
nodeTypeHyperlink == "hyperlink"
nodeTypeEntryHyperlink == "entry-hyperlink"
nodeTypeAssetHyperlink == "asset-hyperlink"
nodeTypeHR == "hr"

\* RichTextNode: NodeType, Value, Data["uri"], Marks, Content
Node(t, v, u, mk, c) == [nodeType |-> t, value |-> v, uri |-> u, marks |-> mk, content |-> c]

TextNode(v) == Node(nodeTypeText, v, "", IF v = "a" THEN <<"bold">> ELSE <<>>, <<>>)

\* the top-level nodes the documents are built from
Blocks ==
    { Node(nodeTypeParagraph, "", "", <<>>, <<TextNode("a")>>),
      Node(nodeTypeParagraph, "", "", <<>>, <<TextNode("b"), TextNode("")>>),
      Node(nodeTypeParagraph, "", "", <<>>,
           <<Node(nodeTypeHyperlink, "", "/de/x", <<>>, <<TextNode("a")>>), TextNode("b")>>),
      Node(nodeTypeParagraph, "", "", <<>>,
           <<Node(nodeTypeEntryHyperlink, "", "", <<>>, <<TextNode("b")>>)>>),
      Node(nodeTypeHyperlink, "", "/en/x", <<>>,
           <<Node(nodeTypeAssetHyperlink, "", "/de/y", <<>>, <<>>)>>),
      Node(nodeTypeHR, "", "", <<>>, <<>>) }

Docs == {Node(nodeTypeDocument, "", "", <<>>, c) :
            c \in UNION {[1..n -> Blocks] : n \in 0..MaxBlocks}}

\* isDocument
isDocument(n) == n.nodeType = nodeTypeDocument

Digit(d) == CASE d = 0 -> "0" [] d = 1 -> "1" [] d = 2 -> "2" [] d = 3 -> "3" [] d = 4 -> "4"
              [] d = 5 -> "5" [] d = 6 -> "6" [] d = 7 -> "7" [] d = 8 -> "8" [] OTHER -> "9"

RECURSIVE Decimal(_)
Decimal(i) == IF i < 10 THEN <<Digit(i)>> ELSE Decimal(i \div 10) \o <<Digit(i % 10)>>

\* %03d
Pad3(i) ==
    IF i < 10 THEN <<"0", "0">> \o Decimal(i)
    ELSE IF i < 100 THEN <<"0">> \o Decimal(i)
    ELSE Decimal(i)

RootPath == <<"0", "0", "0">>

\* fmt.Sprintf(nodePathFormat, path, i)
nodePathFormatNoIndex(path, i) == path \o <<"-">> \o Pad3(0)
nodePathFormat(path, i) == path \o <<"-">> \o Pad3(i)

RECURSIVE extractTextRecursive(_, _)
RECURSIVE ExtractChildren(_, _, _)

\* the loop over n.Content, from child k on
ExtractChildren(n, path, k) ==
    IF k > Len(n.content) THEN EmptyMap
    ELSE Merge(extractTextRecursive(n.content[k], nodePathFormat(path, k - 1)),
               ExtractChildren(n, path, k + 1))

\* extractTextRecursive: the entries it adds to textByPath
extractTextRecursive(n, path) ==
    Merge(IF n.nodeType = nodeTypeText /\ n.value # ""
          THEN [p \in {path} |-> n.value] ELSE EmptyMap,
          ExtractChildren(n, path, 1))

\* extractText
extractText(n) == extractTextRecursive(n, RootPath)

RECURSIVE replaceTextRecursive(_, _, _)

\* replaceTextRecursive: the node afterwards
replaceTextRecursive(n, textByPath, path) ==
    [n EXCEPT !.value = IF path \in DOMAIN textByPath THEN textByPath[path] ELSE @,
              !.content = [k \in 1..Len(n.content) |->
                              replaceTextRecursive(n.content[k], textByPath,
                                                   nodePathFormat(path, k - 1))]]

\* replaceText
replaceText(n, replacements) == replaceTextRecursive(n, replacements, RootPath)

\* the texts a replacement map may carry
Replacements == {"Z", "a", ""}

\* the replacement maps over some of the extracted paths
ReplacementMaps(texts) == UNION {[ks -> Replacements] : ks \in SUBSET DOMAIN texts}

InitRichText ==
    /\ remote = EmptyMap
    /\ cache = EmptyMap
    /\ spaceModel = NilModel
    /\ concurrency = DefaultConcurrency
    /\ options = [DryRun |-> FALSE, Confirm |-> FALSE]
    /\ results = <<>>
    /\ phase = "none"
    /\ ops = <<>>
    /\ slots = <<>>
    /\ semCap = 0
    /\ pc = <<>>
    /\ loc = <<>>
    /\ hist = <<>>
    /\ crashed = FALSE
    /\ load = LoadIdle
    /\ \E t \in Docs :
         fn = [name |-> "richtext", t |-> t, stage |-> "new", texts |-> EmptyMap,
               m |-> EmptyMap, out |-> t, done |-> FALSE]

\* texts := rt.extractText()
ExtractText ==
    /\ fn.name = "richtext"
    /\ fn.stage = "new"
    /\ fn' = [fn EXCEPT !.stage = "extracted", !.texts = extractText(fn.t)]
    /\ UNCHANGED <<remote, cache, spaceModel, concurrency, options, results, phase, ops,
                   slots, semCap, pc, loc, hist, crashed, load>>

\* rt.replaceText(texts), the map extractText returned
ReplaceSame ==
    /\ fn.name = "richtext"
    /\ fn.stage = "extracted"
    /\ fn' = [fn EXCEPT !.stage = "replaced", !.m = fn.texts,
                        !.out = replaceText(fn.t, fn.texts), !.done = TRUE]
    /\ UNCHANGED <<remote, cache, spaceModel, concurrency, options, results, phase, ops,
                   slots, semCap, pc, loc, hist, crashed, load>>

\* rt.replaceText(m)
ReplaceText ==
    /\ fn.name = "richtext"
    /\ fn.stage = "extracted"
    /\ \E m \in ReplacementMaps(fn.texts) :
         fn' = [fn EXCEPT !.stage = "replaced", !.m = m, !.out = replaceText(fn.t, m),
                          !.done = TRUE]
    /\ UNCHANGED <<remote, cache, spaceModel, concurrency, options, results, phase, ops,
                   slots, semCap, pc, loc, hist, crashed, load>>

NextRichText == ExtractText \/ ReplaceSame \/ ReplaceText

SpecRichText == InitRichText /\ [][NextRichText]_vars

\* the positions of the nodes of a tree: sequences of child indices
RECURSIVE Positions(_)
Positions(n) ==
    {<<>>} \cup UNION {{<<k>> \o q : q \in Positions(n.content[k])} : k \in 1..Len(n.content)}

RECURSIVE NodeAt(_, _)
NodeAt(n, pos) == IF pos = <<>> THEN n ELSE NodeAt(n.content[Head(pos)], Tail(pos))

\* the path of the node at a position
RECURSIVE PathOf(_)
PathOf(pos) ==
    IF pos = <<>> THEN RootPath
    ELSE nodePathFormat(PathOf(SubSeq(pos, 1, Len(pos) - 1)), pos[Len(pos)] - 1)

TextLeaves(n) ==
    {pos \in Positions(n) : NodeAt(n, pos).nodeType = nodeTypeText /\ NodeAt(n, pos).value # ""}

\* C20: replaceText with the map extractText returned leaves the tree as it was; with a
\* map over some of the extracted paths, exactly the text leaves at those paths take the
\* mapped values and every other node keeps value, type, marks, data and children;
\* distinct nodes have distinct paths, so extractText has one entry per text leaf.
C20_ExtractReplace ==
    (fn.name = "richtext" /\ fn.stage # "new") =>
        /\ \A p, q \in Positions(fn.t) : PathOf(p) = PathOf(q) => p = q
        /\ DOMAIN fn.texts = {PathOf(p) : p \in TextLeaves(fn.t)}
        /\ \A p \in TextLeaves(fn.t) : fn.texts[PathOf(p)] = NodeAt(fn.t, p).value
        /\ (fn.stage = "replaced" /\ fn.m = fn.texts) => fn.out = fn.t
        /\ fn.stage = "replaced" =>
             /\ Positions(fn.out) = Positions(fn.t)
             /\ \A p \in Positions(fn.t) :
                  LET old == NodeAt(fn.t, p)
                      new == NodeAt(fn.out, p)
                  IN  /\ new.nodeType = old.nodeType
                      /\ new.marks = old.marks
                      /\ new.uri = old.uri
                      /\ Len(new.content) = Len(old.content)
                      /\ new.value = IF PathOf(p) \in DOMAIN fn.m THEN fn.m[PathOf(p)]
                                     ELSE old.value

\* two text leaves of one paragraph, one inside a hyperlink and one beside it: the first
\* replaced, the second kept
C20_Witness ==
    /\ fn.name = "richtext"
    /\ fn.stage = "replaced"
    /\ \E p, q \in TextLeaves(fn.t) :
         /\ Len(p) # Len(q)
         /\ Head(p) = Head(q)
         /\ PathOf(p) \in DOMAIN fn.m
         /\ PathOf(q) \notin DOMAIN fn.m
         /\ NodeAt(fn.out, p).value = "Z"
         /\ NodeAt(fn.out, q).value = NodeAt(fn.t, q).value

----------------------------------------------------------------------------
(* translate.go: TranslateField, TranslateFieldBatch and their IfEmpty       *)
(* variants on an entry with the fields "f" (translated from de to en) and   *)
(* "g".  fn holds the entity's fields and the locals of the call.            *)

Doc(t) == [k |-> "doc", node |-> t]

NoNode == Node("", "", "", <<>>, <<>>)

\* parseRichText: json.Marshal, then json.Unmarshal into a RichTextNode
parseRichText(v) ==
    IF v.k = "doc" THEN [err |-> FALSE, node |-> v.node]
    ELSE IF v.k \in {"map", "link"} THEN [err |-> FALSE, node |-> NoNode]
    ELSE [err |-> TRUE, node |-> NoNode]

\* EntryEntity.SetFieldValue
SetFieldValueFresh(fields, name, locale, value) ==
    [fields EXCEPT ![name] = [k |-> "locmap", vals |-> [l \in {locale} |-> value]]]
SetFieldValue(fields, name, locale, value) ==
    IF fields[name].k = "locmap"
    THEN [fields EXCEPT ![name].vals = Put(@, locale, value)]
    ELSE [fields EXCEPT ![name] = [k |-> "locmap", vals |-> [l \in {locale} |-> value]]]

\* the entry the accessors read: an EntryEntity with these fields
EntryOf(fields) == Entity("Entry", 1, 0, TRUE)

SourceLocale == "de"
TargetLocale == "en"

SourceValues ==
    {Nil, Str(""), Str("a"), [k |-> "float", n |-> 1], [k |-> "map"]} \cup {Doc(t) : t \in Docs}

TargetValues ==
    {Nil, Str(""), Str("x"), [k |-> "float", n |-> 1],
     Doc(Node(nodeTypeDocument, "", "", <<>>, <<>>))}

\* Entry.Fields with the two values of "f" (a nil value is a missing locale)
FieldsOf(src, tgt) ==
    LET ls == (IF src = Nil THEN {} ELSE {SourceLocale})
                \cup (IF tgt = Nil THEN {} ELSE {TargetLocale})
    IN  [name \in {"f", "g"} |->
            IF name = "g" THEN [k |-> "locmap", vals |-> [l \in {SourceLocale} |-> Str("k")]]
            ELSE IF ls = {} THEN [k |-> "absent"]
            ELSE [k |-> "locmap",
                  vals |-> [l \in ls |-> IF l = SourceLocale THEN src ELSE tgt]]]

Variants == {"TranslateField", "TranslateFieldBatch", "TranslateFieldIfEmpty",
             "TranslateFieldBatchIfEmpty"}

IsBatch(variant) == variant \in {"TranslateFieldBatch", "TranslateFieldBatchIfEmpty"}

IsIfEmpty(variant) == variant \in {"TranslateFieldIfEmpty", "TranslateFieldBatchIfEmpty"}

\* the translation a translate function returns for a text
Translation(text) ==
    CASE text = "a" -> "A" [] text = "b" -> "B" [] text = "k" -> "K" [] OTHER -> "T"

Code(c) == CASE c = "-" -> 45 [] c = "0" -> 48 [] c = "1" -> 49 [] c = "2" -> 50
             [] c = "3" -> 51 [] c = "4" -> 52 [] c = "5" -> 53 [] c = "6" -> 54
             [] c = "7" -> 55 [] c = "8" -> 56 [] OTHER -> 57

RECURSIVE StringLess(_, _)
StringLess(a, b) ==
    IF a = <<>> THEN b # <<>>
    ELSE IF b = <<>> THEN FALSE
    ELSE IF Code(Head(a)) # Code(Head(b)) THEN Code(Head(a)) < Code(Head(b))
    ELSE StringLess(Tail(a), Tail(b))

\* sort.Strings
RECURSIVE SortStrings(_)
SortStrings(S) ==
    IF S = {} THEN <<>>
    ELSE LET m == CHOOSE x \in S : \A y \in S \ {x} : StringLess(x, y)
         IN  <<m>> \o SortStrings(S \ {m})

\* TranslateFieldIfEmpty: the target has a value and translation is skipped
TargetPopulatedNever(v) == FALSE
TargetPopulatedStringOnly(v) == v.k = "string" /\ v.v # ""
TargetPopulated(v) == v # Nil /\ ~(v.k = "string" /\ v.v = "")

\* TranslateFieldBatch: translated[path] = translatedTexts[i] for i, path := range paths
ZipReversed(paths, translatedTexts) ==
    [p \in {paths[i] : i \in 1..Len(paths)} |->
        translatedTexts[CHOOSE i \in 1..Len(paths) : paths[Len(paths) + 1 - i] = p]]
Zip(paths, translatedTexts) ==
    [p \in {paths[i] : i \in 1..Len(paths)} |->
        translatedTexts[CHOOSE i \in 1..Len(paths) : paths[i] = p]]

TranslateStart(variant, src, tgt) ==
    [name |-> "translate", variant |-> variant, fields |-> FieldsOf(src, tgt),
     fields0 |-> FieldsOf(src, tgt), stage |-> "start", entered |-> FALSE, rt |-> NoNode,
     texts |-> EmptyMap, todo |-> {}, translated |-> EmptyMap, billed |-> 0,
     calls |-> <<>>, answer |-> <<>>, failed |-> FALSE,
     ret |-> [billed |-> 0, err |-> FALSE], done |-> FALSE]

InitTranslate ==
    /\ remote = EmptyMap
    /\ cache = EmptyMap
    /\ spaceModel = NilModel
    /\ concurrency = DefaultConcurrency
    /\ options = [DryRun |-> FALSE, Confirm |-> FALSE]
    /\ results = <<>>
    /\ phase = "none"
    /\ ops = <<>>
    /\ slots = <<>>
    /\ semCap = 0
    /\ pc = <<>>
    /\ loc = <<>>
    /\ hist = <<>>
    /\ crashed = FALSE
    /\ load = LoadIdle
    /\ \E variant \in Variants, src \in SourceValues, tgt \in TargetValues :
         fn = TranslateStart(variant, src, tgt)

\* return billed, err
Return(f, billed, err) ==
    [f EXCEPT !.stage = "done", !.ret = [billed |-> billed, err |-> err], !.done = TRUE]

\* entity.SetFieldValue(fieldName, targetLocale, value); return billed, nil
Commit(f, value, billed) ==
    Return([f EXCEPT !.fields = SetFieldValue(f.fields, "f", TargetLocale, value)],
           billed, FALSE)

\* TranslateField / TranslateFieldBatch up to the first call of the translate function
Enter(f) ==
    LET value == GetFieldValue(EntryOf(f.fields), f.fields["f"], SourceLocale)
        parsed == parseRichText(value)
        g == [f EXCEPT !.entered = TRUE]
    IN  IF value = Nil THEN Return(g, 0, FALSE)
        ELSE IF ~parsed.err /\ isDocument(parsed.node)
        THEN IF extractText(parsed.node) = EmptyMap
             THEN Commit(g, Doc(parsed.node), 0)
             ELSE [g EXCEPT !.stage = IF IsBatch(f.variant) THEN "batch" ELSE "leaves",
                            !.rt = parsed.node,
                            !.texts = extractText(parsed.node),
                            !.todo = DOMAIN extractText(parsed.node)]
        ELSE IF value.k = "string"
        THEN IF value.v = "" THEN Commit(g, Str(""), 0)
             ELSE [g EXCEPT !.stage = IF IsBatch(f.variant) THEN "batchString" ELSE "string"]
        ELSE Return(g, 0, TRUE)

\* the call of one of the four functions, up to the first translate call
TranslateCall ==
    /\ fn.name = "translate"
    /\ fn.stage = "start"
    /\ fn' = IF /\ IsIfEmpty(fn.variant)
                /\ TargetPopulated(GetFieldValue(EntryOf(fn.fields), fn.fields["f"],
                                                 TargetLocale))
             THEN Return(fn, 0, FALSE)
             ELSE Enter(fn)
    /\ UNCHANGED <<remote, cache, spaceModel, concurrency, options, results, phase, ops,
                   slots, semCap, pc, loc, hist, crashed, load>>

\* TranslateField: the translate function failed for a leaf
AbortLeafCommitting(f) ==
    Return([f EXCEPT !.fields = SetFieldValue(f.fields, "f", TargetLocale,
                                              Doc(replaceText(f.rt, f.translated)))],
           f.billed, TRUE)
AbortLeaf(f) == Return(f, f.billed, TRUE)

\* TranslateField: one turn of the loop over texts (a map: any order); after the last
\* one rt.replaceText(translated) and SetFieldValue
TranslateLeaf ==
    /\ fn.name = "translate"
    /\ fn.stage = "leaves"
    /\ \E path \in fn.todo :
         LET f == [fn EXCEPT !.calls = Append(@, <<fn.texts[path]>>)]
         IN  \/ fn' = AbortLeaf([f EXCEPT !.failed = TRUE])
             \/ LET g == [f EXCEPT !.translated = Put(@, path, Translation(fn.texts[path])),
                                   !.billed = @ + 1,
                                   !.todo = @ \ {path}]
                IN  fn' = IF g.todo = {}
                          THEN Commit(g, Doc(replaceText(g.rt, g.translated)), g.billed)
                          ELSE g
    /\ UNCHANGED <<remote, cache, spaceModel, concurrency, options, results, phase, ops,
                   slots, semCap, pc, loc, hist, crashed, load>>

\* the lists a batch function can return for texts: the translations, or a list of
\* another length
BatchAnswers(texts) ==
    LET good == [i \in 1..Len(texts) |-> Translation(texts[i])]
    IN  {good, SubSeq(good, 1, Len(good) - 1), Append(good, "Z")}

\* TranslateFieldBatch on a document: paths sorted, one translateBatch call
TranslateBatch ==
    /\ fn.name = "translate"
    /\ fn.stage = "batch"
    /\ LET paths == SortStrings(DOMAIN fn.texts)
           texts == [i \in 1..Len(paths) |-> fn.texts[paths[i]]]
           f == [fn EXCEPT !.calls = Append(@, texts)]
       IN  \/ fn' = Return([f EXCEPT !.failed = TRUE], 0, TRUE)
           \/ \E translatedTexts \in BatchAnswers(texts) :
                fn' = IF Len(translatedTexts) # Len(texts)
                      THEN Return([f EXCEPT !.answer = translatedTexts], 0, TRUE)
                      ELSE LET g == [f EXCEPT !.answer = translatedTexts,
                                              !.translated = Zip(paths, translatedTexts),
                                              !.todo = {}]
                           IN  Commit(g, Doc(replaceText(g.rt, g.translated)), Len(texts))
    /\ UNCHANGED <<remote, cache, spaceModel, concurrency, options, results, phase, ops,
                   slots, semCap, pc, loc, hist, crashed, load>>

\* the plain string: translate(str), or translateBatch([]string{str})
TranslateString ==
    /\ fn.name = "translate"
    /\ fn.stage \in {"string", "batchString"}
    /\ LET str == GetFieldValue(EntryOf(fn.fields), fn.fields["f"], SourceLocale).v
           f == [fn EXCEPT !.calls = Append(@, <<str>>)]
       IN  \/ fn' = Return([f EXCEPT !.failed = TRUE], 0, TRUE)
           \/ fn' = Commit([f EXCEPT !.answer = <<Translation(str)>>],
                           Str(Translation(str)), 1)
           \/ /\ fn.stage = "batchString"
              /\ \E translatedTexts \in {<<>>, <<Translation(str), "Z">>} :
                   fn' = IF Len(translatedTexts) # 1
                         THEN Return([f EXCEPT !.answer = translatedTexts], 0, TRUE)
                         ELSE Commit([f EXCEPT !.answer = translatedTexts],
                                     Str(translatedTexts[1]), 1)
    /\ UNCHANGED <<remote, cache, spaceModel, concurrency, options, results, phase, ops,
                   slots, semCap, pc, loc, hist, crashed, load>>

NextTranslate == TranslateCall \/ TranslateLeaf \/ TranslateBatch \/ TranslateString

SpecTranslate == InitTranslate /\ [][NextTranslate]_vars

\* the values of "f" the call started with and holds now
Source0 == GetFieldValue(EntryOf(fn.fields0), fn.fields0["f"], SourceLocale)
Target0 == GetFieldValue(EntryOf(fn.fields0), fn.fields0["f"], TargetLocale)
TargetNow == GetFieldValue(EntryOf(fn.fields), fn.fields["f"], TargetLocale)

NonEmptyString(v) == v.k = "string" /\ v.v # ""

\* C14: when the target locale already holds a non-empty string, TranslateFieldIfEmpty
\* and TranslateFieldBatchIfEmpty never call the translation function, return 0 billed
\* characters and no error, and leave every field value of the entity as it was.
C14_SkipsPopulatedTarget ==
    (fn.name = "translate" /\ IsIfEmpty(fn.variant) /\ NonEmptyString(Target0)) =>
        /\ fn.calls = <<>>
        /\ ~fn.entered
        /\ fn.fields = fn.fields0
        /\ fn.stage \in {"start", "done"}
        /\ fn.done => fn.ret = [billed |-> 0, err |-> FALSE]

\* a document with text to translate was left alone because the target has a string
C14_Witness ==
    /\ fn.name = "translate"
    /\ fn.done
    /\ IsIfEmpty(fn.variant)
    /\ Target0 = Str("x")
    /\ Source0.k = "doc"
    /\ extractText(Source0.node) # EmptyMap
    /\ TargetNow = Str("x")

\* C15 as stated: the IfEmpty variants go on to TranslateField / TranslateFieldBatch in
\* every case but a non-empty string in the target locale.
C15_ProceedsUnlessNonEmptyString ==
    (fn.name = "translate" /\ IsIfEmpty(fn.variant) /\ fn.done) =>
        (fn.entered <=> ~NonEmptyString(Target0))

\* C15: the IfEmpty variants skip translation (no translate call, 0 billed characters,
\* no error, entity unchanged) exactly when the target locale holds a value other than
\* the empty string: a non-empty string, but also a number or a rich-text document;
\* they go on to TranslateField / TranslateFieldBatch only when the target is absent
\* (nil) or the empty string.
C15_SkipsAnyTargetValue ==
    (fn.name = "translate" /\ IsIfEmpty(fn.variant) /\ fn.stage # "start") =>
        /\ fn.entered <=> (Target0 = Nil \/ Target0 = Str(""))
        /\ ~fn.entered =>
             /\ fn.done
             /\ fn.calls = <<>>
             /\ fn.fields = fn.fields0
             /\ fn.ret = [billed |-> 0, err |-> FALSE]

\* a string source was not translated because the target holds a rich-text document
C15_Witness ==
    /\ fn.name = "translate"
    /\ fn.done
    /\ IsIfEmpty(fn.variant)
    /\ Target0.k = "doc"
    /\ Source0 = Str("a")
    /\ ~fn.entered
    /\ TargetNow = Target0

\* C16: when the translate function fails, for a text leaf of a rich-text source or for
\* the plain string, TranslateField returns an error and the entity is as it was before
\* the call (target not written, source not modified), however many leaves had been
\* translated; nothing is written before the last leaf is translated.
C16_NoPartialTranslation ==
    (fn.name = "translate" /\ ~IsBatch(fn.variant)) =>
        /\ fn.stage \in {"leaves", "string"} => fn.fields = fn.fields0
        /\ fn.failed =>
             /\ fn.done
             /\ fn.ret.err
             /\ fn.fields = fn.fields0
        /\ (fn.done /\ fn.ret.err) => fn.fields = fn.fields0

\* the translation of a document failed after some of its leaves had been translated
C16_Witness ==
    /\ fn.name = "translate"
    /\ fn.variant = "TranslateField"
    /\ fn.failed
    /\ fn.ret.err
    /\ fn.ret.billed >= 1
    /\ fn.translated # EmptyMap
    /\ Len(fn.calls) = fn.ret.billed + 1
    /\ fn.fields = fn.fields0

RECURSIVE PositionLess(_, _)
PositionLess(p, q) ==
    IF p = <<>> THEN q # <<>>
    ELSE IF q = <<>> THEN FALSE
    ELSE IF Head(p) # Head(q) THEN Head(p) < Head(q)
    ELSE PositionLess(Tail(p), Tail(q))

\* the positions of a set, in document order
RECURSIVE InDocumentOrder(_)
InDocumentOrder(S) ==
    IF S = {} THEN <<>>
    ELSE LET m == CHOOSE x \in S : \A y \in S \ {x} : PositionLess(x, y)
         IN  <<m>> \o InDocumentOrder(S \ {m})

\* C17 as stated: TranslateFieldBatch on a rich-text source calls the batch function
\* exactly once.
C17_BatchCalledOnce ==
    (fn.name = "translate" /\ fn.variant = "TranslateFieldBatch" /\ Source0.k = "doc"
        /\ fn.done) => Len(fn.calls) = 1

\* the target holds the document with the answer zipped onto its leaves
C17_Zipped(leaves) ==
    /\ TargetNow.k = "doc"
    /\ Positions(TargetNow.node) = Positions(fn.rt)
    /\ \A i \in 1..Len(leaves) : NodeAt(TargetNow.node, leaves[i]).value = fn.answer[i]
    /\ \A p \in Positions(fn.rt) :
         /\ NodeAt(TargetNow.node, p).nodeType = NodeAt(fn.rt, p).nodeType
         /\ NodeAt(TargetNow.node, p).uri = NodeAt(fn.rt, p).uri
         /\ NodeAt(TargetNow.node, p).marks = NodeAt(fn.rt, p).marks
         /\ p \notin TextLeaves(fn.rt) =>
              NodeAt(TargetNow.node, p).value = NodeAt(fn.rt, p).value

\* C17: TranslateFieldBatch on a rich-text source with at least one non-empty text node
\* calls the batch function exactly once, with the texts ordered by ascending path; when
\* the returned list has the same length, the leaf at the i-th path receives the i-th
\* returned text; when it has another length the call fails and the target is not
\* written.  A document without non-empty text nodes is copied to the target without
\* any call of the batch function.
C17_BatchZipsByPath ==
    (fn.name = "translate" /\ IsBatch(fn.variant) /\ fn.done /\ fn.entered
        /\ Source0.k = "doc") =>
        IF TextLeaves(Source0.node) = {}
        THEN /\ fn.calls = <<>>
             /\ TargetNow = Source0
             /\ fn.ret = [billed |-> 0, err |-> FALSE]
        ELSE LET leaves == InDocumentOrder(TextLeaves(Source0.node))
             IN  /\ Len(fn.calls) = 1
                 /\ fn.calls[1] = [i \in 1..Len(leaves) |-> NodeAt(Source0.node, leaves[i]).value]
                 /\ (~fn.failed /\ Len(fn.answer) = Len(leaves)) =>
                      /\ ~fn.ret.err
                      /\ C17_Zipped(leaves)
                 /\ (~fn.failed /\ Len(fn.answer) # Len(leaves)) =>
                      /\ fn.ret.err
                      /\ fn.fields = fn.fields0
                 /\ fn.failed => (fn.ret.err /\ fn.fields = fn.fields0)

\* a document with two different texts at different depths was translated in one call
C17_Witness ==
    /\ fn.name = "translate"
    /\ fn.variant = "TranslateFieldBatch"
    /\ fn.done
    /\ ~fn.ret.err
    /\ fn.calls = << <<"a", "b", "b">> >>
    /\ fn.answer = <<"A", "B", "B">>
    /\ TargetNow.k = "doc"
    /\ extractText(TargetNow.node) # extractText(Source0.node)

----------------------------------------------------------------------------
(* ProcessHyperlinks on the field "f" of an entry at the locale de, with a   *)
(* caller-supplied resolver.  fn holds the entity's fields and the locals.   *)

\* RichTextNode.getHyperlinkURI: "" when data is nil or holds no string uri
getHyperlinkURI(n) == n.uri

\* RichTextNode.setHyperlinkURI on the node at a position of the tree
RECURSIVE setHyperlinkURI(_, _, _)
setHyperlinkURI(n, pos, uri) ==
    IF pos = <<>> THEN [n EXCEPT !.uri = uri]
    ELSE [n EXCEPT !.content[Head(pos)] = setHyperlinkURI(@, Tail(pos), uri)]

IsHyperlinkNode(n) ==
    \/ n.nodeType = nodeTypeHyperlink
    \/ n.nodeType = nodeTypeEntryHyperlink
    \/ n.nodeType = nodeTypeAssetHyperlink

\* the nodes walkHyperlinksRecursive hands to the visitor, in the order of its calls
RECURSIVE walkHyperlinksRecursive(_, _)
RECURSIVE WalkChildren(_, _, _)
WalkChildren(n, pos, i) ==
    IF i > Len(n.content) THEN <<>>
    ELSE walkHyperlinksRecursive(n.content[i], Append(pos, i)) \o WalkChildren(n, pos, i + 1)

walkHyperlinksRecursive(n, pos) ==
    (IF IsHyperlinkNode(n) THEN << [pos |-> pos, node |-> n] >> ELSE <<>>)
        \o WalkChildren(n, pos, 1)

walkHyperlinksBackwards(n) ==
    LET visited == walkHyperlinksRecursive(n, <<>>)
    IN  [i \in 1..Len(visited) |-> visited[Len(visited) + 1 - i]]
walkHyperlinks(n) == walkHyperlinksRecursive(n, <<>>)

\* what a resolver can return for a URI other than the URI itself
Rewritten(uri) ==
    CASE uri = "/de/x" -> "/en/x" [] uri = "/de/y" -> "/en/y" [] OTHER -> ""

HyperlinkValues ==
    {Nil, Str("a"), [k |-> "float", n |-> 1], [k |-> "map"]} \cup {Doc(t) : t \in Docs}

HyperlinksStart(value) ==
    [name |-> "hyperlinks", fields |-> FieldsOf(value, Nil), fields0 |-> FieldsOf(value, Nil),
     stage |-> "start", rt |-> NoNode, todo |-> <<>>, calls |-> <<>>, modified |-> FALSE,
     wrote |-> FALSE, ret |-> [err |-> FALSE], done |-> FALSE]

InitHyperlinks ==
    /\ remote = EmptyMap
    /\ cache = EmptyMap
    /\ spaceModel = NilModel
    /\ concurrency = DefaultConcurrency
    /\ options = [DryRun |-> FALSE, Confirm |-> FALSE]
    /\ results = <<>>
    /\ phase = "none"
    /\ ops = <<>>
    /\ slots = <<>>
    /\ semCap = 0
    /\ pc = <<>>
    /\ loc = <<>>
    /\ hist = <<>>
    /\ crashed = FALSE
    /\ load = LoadIdle
    /\ \E value \in HyperlinkValues : fn = HyperlinksStart(value)

\* return err
ReturnErr(f, err) == [f EXCEPT !.stage = "done", !.ret = [err |-> err], !.done = TRUE]

\* the end of the walk: if modified { entity.SetFieldValue(fieldName, locale, rt) }
Finish(f) ==
    IF f.modified
    THEN ReturnErr([f EXCEPT !.fields = SetFieldValue(f.fields, "f", SourceLocale, Doc(f.rt)),
                             !.wrote = TRUE], FALSE)
    ELSE ReturnErr(f, FALSE)

\* the visitor returned an error: walkHyperlinks and ProcessHyperlinks return it
ResolverFailedWriting(f) ==
    IF f.modified
    THEN ReturnErr([f EXCEPT !.fields = SetFieldValue(f.fields, "f", SourceLocale, Doc(f.rt)),
                             !.wrote = TRUE], TRUE)
    ELSE ReturnErr(f, TRUE)
ResolverFailed(f) == ReturnErr(f, TRUE)

\* the visitor on the nodes up to the next one that has a URI; the end of the walk
\* when there is none
RECURSIVE SkipEmpty(_)
SkipEmpty(todo) ==
    IF todo = <<>> THEN <<>>
    ELSE IF getHyperlinkURI(Head(todo).node) = "" THEN SkipEmpty(Tail(todo))
    ELSE todo

Walk(f) ==
    LET todo == SkipEmpty(f.todo)
    IN  IF todo = <<>> THEN Finish([f EXCEPT !.todo = <<>>])
        ELSE [f EXCEPT !.stage = "walk", !.todo = todo]

\* ProcessHyperlinks up to the first call of the resolver
ProcessHyperlinks ==
    /\ fn.name = "hyperlinks"
    /\ fn.stage = "start"
    /\ LET value == GetFieldValue(EntryOf(fn.fields), fn.fields["f"], SourceLocale)
           parsed == parseRichText(value)
       IN  fn' = IF value = Nil THEN ReturnErr(fn, FALSE)
                 ELSE IF parsed.err THEN ReturnErr(fn, TRUE)
                 ELSE IF ~isDocument(parsed.node) THEN ReturnErr(fn, TRUE)
                 ELSE Walk([fn EXCEPT !.rt = parsed.node,
                                      !.todo = walkHyperlinks(parsed.node)])
    /\ UNCHANGED <<remote, cache, spaceModel, concurrency, options, results, phase, ops,
                   slots, semCap, pc, loc, hist, crashed, load>>

\* the visitor on a node with a URI: the resolver fails, or returns a URI
VisitHyperlink ==
    /\ fn.name = "hyperlinks"
    /\ fn.stage = "walk"
    /\ LET pos == Head(fn.todo).pos
           uri == getHyperlinkURI(Head(fn.todo).node)
       IN  \/ fn' = ResolverFailed(
                       [fn EXCEPT !.calls = Append(@, [pos |-> pos, uri |-> uri,
                                                       newUri |-> "", err |-> TRUE])])
           \/ \E newUri \in {uri, Rewritten(uri)} :
                LET f == [fn EXCEPT !.calls = Append(@, [pos |-> pos, uri |-> uri,
                                                         newUri |-> newUri, err |-> FALSE]),
                                    !.todo = Tail(@)]
                    g == IF newUri # uri
                         THEN [f EXCEPT !.rt = setHyperlinkURI(@, pos, newUri),
                                        !.modified = TRUE]
                         ELSE f
                IN  fn' = Walk(g)
    /\ UNCHANGED <<remote, cache, spaceModel, concurrency, options, results, phase, ops,
                   slots, semCap, pc, loc, hist, crashed, load>>

NextHyperlinks == ProcessHyperlinks \/ VisitHyperlink

SpecHyperlinks == InitHyperlinks /\ [][NextHyperlinks]_vars

\* the value of "f" at the processed locale now
SourceNow == GetFieldValue(EntryOf(fn.fields), fn.fields["f"], SourceLocale)

SomeURIChanged == \E i \in 1..Len(fn.calls) : ~fn.calls[i].err /\ fn.calls[i].newUri # fn.calls[i].uri

NoResolverFailure == \A i \in 1..Len(fn.calls) : ~fn.calls[i].err

\* C18: ProcessHyperlinks writes the field back if and only if the resolver returned a
\* URI different from its input for at least one hyperlink and no resolver call failed;
\* when every result equals its input, when a resolver call fails, or when the field is
\* not a rich-text document (an error is returned), the stored field value is as before.
C18_WritesBackIffChanged ==
    fn.name = "hyperlinks" =>
        /\ ~fn.done => (~fn.wrote /\ fn.fields = fn.fields0)
        /\ fn.done =>
             /\ fn.wrote <=> (SomeURIChanged /\ NoResolverFailure)
             /\ (fn.fields # fn.fields0) <=> (SomeURIChanged /\ NoResolverFailure)
             /\ ~NoResolverFailure => fn.ret.err
             /\ (Source0 # Nil /\ Source0.k # "doc") =>
                  (fn.ret.err /\ fn.calls = <<>> /\ fn.fields = fn.fields0)
             /\ fn.wrote =>
                  /\ SourceNow.k = "doc"
                  /\ \A i \in 1..Len(fn.calls) :
                       NodeAt(SourceNow.node, fn.calls[i].pos).uri = fn.calls[i].newUri
                  /\ fn.fields["g"] = fn.fields0["g"]

\* one URI was left as it was, a later one was rewritten, and the field was written
C18_Witness ==
    /\ fn.name = "hyperlinks"
    /\ fn.done
    /\ ~fn.ret.err
    /\ Len(fn.calls) = 2
    /\ fn.calls[1].newUri = fn.calls[1].uri
    /\ fn.calls[2].newUri # fn.calls[2].uri
    /\ fn.fields # fn.fields0

HyperlinkPositions(t) == {p \in Positions(t) : IsHyperlinkNode(NodeAt(t, p))}

CalledPositions == [i \in 1..Len(fn.calls) |-> fn.calls[i].pos]

\* C19 as stated: the resolver is applied exactly once to every node of type hyperlink,
\* entry-hyperlink or asset-hyperlink, in depth-first document order.
C19_ResolverOnEveryHyperlinkNode ==
    (fn.name = "hyperlinks" /\ fn.done /\ Source0.k = "doc" /\ ~fn.ret.err) =>
        CalledPositions = InDocumentOrder(HyperlinkPositions(Source0.node))

\* C19: for a rich-text document field, ProcessHyperlinks applies the resolver exactly
\* once to every node of type hyperlink, entry-hyperlink or asset-hyperlink whose data
\* holds a non-empty string uri, with that uri, in depth-first document order (a node
\* before its descendants, children in order), and stops at the first resolver error
\* without visiting the remaining nodes; nodes of these types without a uri (or with an
\* empty one) are never handed to the resolver.
C19_ResolverOnEveryURIInOrder ==
    (fn.name = "hyperlinks" /\ Source0.k = "doc" /\ fn.stage # "start") =>
        LET withURI == {p \in HyperlinkPositions(Source0.node) :
                            NodeAt(Source0.node, p).uri # ""}
            order == InDocumentOrder(withURI)
        IN  /\ Len(fn.calls) <= Len(order)
            /\ CalledPositions = SubSeq(order, 1, Len(fn.calls))
            /\ \A i \in 1..Len(fn.calls) :
                 /\ fn.calls[i].uri = NodeAt(Source0.node, fn.calls[i].pos).uri
                 /\ fn.calls[i].err => (i = Len(fn.calls) /\ fn.done /\ fn.ret.err)
            /\ (fn.done /\ NoResolverFailure) => (Len(fn.calls) = Len(order) /\ ~fn.ret.err)
            /\ ~fn.done => NoResolverFailure

\* a hyperlink and the asset-hyperlink nested in it were resolved in this order, the
\* entry-hyperlink without a uri was passed over
C19_Witness ==
    /\ fn.name = "hyperlinks"
    /\ fn.done
    /\ ~fn.ret.err
    /\ Source0.k = "doc"
    /\ Cardinality(HyperlinkPositions(Source0.node)) = 3
    /\ Len(fn.calls) = 2
    /\ Len(fn.calls[1].pos) < Len(fn.calls[2].pos)

----------------------------------------------------------------------------
(* collection.go: Filter, Limit, Skip and Transform on EntityCollection       *)
(* objects.  fn.heap holds the collection objects by address (address 1 is   *)
(* the collection the caller starts with), fn.calls the calls made so far.   *)

MaxColl == 2         \* entities in the collection the caller starts with

\* an EntityCollection: the entities (by id) and the filters applied so far
Collection(entities, filters) == [entities |-> entities, filters |-> filters]

\* FilterByType("Entry"), FilterPublished(), FilterByID("e2")
Filters == {"FilterByType", "FilterPublished", "FilterByID"}

FilterHolds(filter, id) ==
    CASE filter = "FilterByType" -> cache[id].type = "Entry"
      [] filter = "FilterPublished" -> IsPublished(cache[id])
      [] OTHER -> id = "e2"

\* the inner loop of Filter: matches stays true when no filter rejects the entity
RECURSIVE MatchesAny(_, _)
MatchesAny(filters, id) ==
    IF filters = <<>> THEN TRUE
    ELSE IF FilterHolds(Head(filters), id) THEN TRUE
    ELSE Len(filters) > 1 /\ MatchesAny(Tail(filters), id)
RECURSIVE Matches(_, _)
Matches(filters, id) ==
    IF filters = <<>> THEN TRUE
    ELSE IF ~FilterHolds(Head(filters), id) THEN FALSE
    ELSE Matches(Tail(filters), id)

\* the outer loop of Filter: filtered = append(filtered, entity)
RECURSIVE Filtered(_, _)
Filtered(entities, filters) ==
    IF entities = <<>> THEN <<>>
    ELSE (IF Matches(filters, Head(entities)) THEN <<Head(entities)>> ELSE <<>>)
            \o Filtered(Tail(entities), filters)

\* what a method returns: it panicked, or the receiver itself, or a new object
Panicked == [panic |-> TRUE, same |-> FALSE, coll |-> Collection(<<>>, <<>>)]
Receiver(ec) == [panic |-> FALSE, same |-> TRUE, coll |-> ec]
NewCollection(entities, filters) ==
    [panic |-> FALSE, same |-> FALSE, coll |-> Collection(entities, filters)]

\* EntityCollection.Filter
Filter(ec, filters) == NewCollection(Filtered(ec.entities, filters), ec.filters \o filters)

\* EntityCollection.Limit; ec.entities[:n] panics for a negative n
LimitOneMore(ec, n) ==
    IF n >= Len(ec.entities) THEN Receiver(ec)
    ELSE IF n < 0 THEN Panicked
    ELSE NewCollection(SubSeq(ec.entities, 1, n + 1), ec.filters)
Limit(ec, n) ==
    IF n >= Len(ec.entities) THEN Receiver(ec)
    ELSE IF n < 0 THEN Panicked
    ELSE NewCollection(SubSeq(ec.entities, 1, n), ec.filters)

\* EntityCollection.Skip; ec.entities[n:] panics for a negative n
Skip(ec, n) ==
    IF n >= Len(ec.entities) THEN NewCollection(<<>>, ec.filters)
    ELSE IF n < 0 THEN Panicked
    ELSE NewCollection(SubSeq(ec.entities, n + 1, Len(ec.entities)), ec.filters)

\* the functions handed to Transform: the entity itself, or always the entity a1
TransformFns == {"same", "toA1"}

ApplyFn(f, id) == IF f = "same" THEN id ELSE "a1"

\* EntityCollection.Transform
Transform(ec, f) ==
    NewCollection([i \in 1..Len(ec.entities) |-> ApplyFn(f, ec.entities[i])], ec.filters)

InitialCollections == UNION {[1..n -> Ids] : n \in 0..MaxColl}

FilterArgs == {<<>>} \cup {<<a>> : a \in Filters} \cup {<<a, b>> : a, b \in Filters}

SizeArgs == -1..(MaxColl + 1)

InitCollection ==
    /\ remote = InitRemote
    /\ cache = Loaded(Ids)
    /\ spaceModel = NilModel
    /\ concurrency = DefaultConcurrency
    /\ options = [DryRun |-> FALSE, Confirm |-> FALSE]
    /\ results = <<>>
    /\ phase = "none"
    /\ ops = <<>>
    /\ slots = <<>>
    /\ semCap = 0
    /\ pc = <<>>
    /\ loc = <<>>
    /\ hist = <<>>
    /\ crashed = FALSE
    /\ load = LoadIdle
    /\ \E entities \in InitialCollections :
         fn = [name |-> "collection", heap |-> <<Collection(entities, <<>>)>>,
               calls |-> <<>>, done |-> FALSE]

\* a call on the object at recv: the result is stored at a new address unless the
\* method returned its receiver; a panic ends the program
MethodCall(recv, op, filters, n, f, r) ==
    LET out == IF r.panic THEN 0 ELSE IF r.same THEN recv ELSE Len(fn.heap) + 1
    IN  fn' = [fn EXCEPT
                 !.heap = IF r.panic \/ r.same THEN @ ELSE Append(@, r.coll),
                 !.calls = Append(@, [recv |-> recv, op |-> op, filters |-> filters,
                                      n |-> n, f |-> f, panic |-> r.panic, out |-> out,
                                      before |-> fn.heap]),
                 !.done = r.panic \/ Len(fn.calls) = 1]

\* the caller makes two calls, the second on the first collection or on the result
CanCall(recv) ==
    /\ fn.name = "collection"
    /\ ~fn.done
    /\ recv \in 1..Len(fn.heap)

CallFilter ==
    /\ \E recv \in 1..2, filters \in FilterArgs :
         /\ CanCall(recv)
         /\ MethodCall(recv, "Filter", filters, 0, "-", Filter(fn.heap[recv], filters))
    /\ UNCHANGED <<remote, cache, spaceModel, concurrency, options, results, phase, ops,
                   slots, semCap, pc, loc, hist, crashed, load>>

CallLimit ==
    /\ \E recv \in 1..2, n \in SizeArgs :
         /\ CanCall(recv)
         /\ MethodCall(recv, "Limit", <<>>, n, "-", Limit(fn.heap[recv], n))
    /\ UNCHANGED <<remote, cache, spaceModel, concurrency, options, results, phase, ops,
                   slots, semCap, pc, loc, hist, crashed, load>>

CallSkip ==
    /\ \E recv \in 1..2, n \in SizeArgs :
         /\ CanCall(recv)
         /\ MethodCall(recv, "Skip", <<>>, n, "-", Skip(fn.heap[recv], n))
    /\ UNCHANGED <<remote, cache, spaceModel, concurrency, options, results, phase, ops,
                   slots, semCap, pc, loc, hist, crashed, load>>

CallTransform ==
    /\ \E recv \in 1..2, f \in TransformFns :
         /\ CanCall(recv)
         /\ MethodCall(recv, "Transform", <<>>, 0, f, Transform(fn.heap[recv], f))
    /\ UNCHANGED <<remote, cache, spaceModel, concurrency, options, results, phase, ops,
                   slots, semCap, pc, loc, hist, crashed, load>>

NextCollection == CallFilter \/ CallLimit \/ CallSkip \/ CallTransform

SpecCollection == InitCollection /\ [][NextCollection]_vars

\* the entities that satisfy both filters, in their order
Both(entities, a, b) ==
    LET Test(id) == FilterHolds(a, id) /\ FilterHolds(b, id)
    IN  SelectSeq(entities, Test)

\* the collection a call was made on, and the one it returned
ReceiverOf(call) == call.before[call.recv]
ResultOf(call) == fn.heap[call.out]

\* C21: c.Filter(a, b), c.Filter(a).Filter(b) and c.Filter(b).Filter(a) hold the same
\* entities in the same relative order: the entities of c that satisfy both a and b.
C21_FilterComposes ==
    fn.name = "collection" =>
        /\ \A i \in 1..Len(fn.calls) :
             (fn.calls[i].op = "Filter" /\ Len(fn.calls[i].filters) = 2) =>
                 /\ ~fn.calls[i].panic
                 /\ ResultOf(fn.calls[i]).entities =
                        Both(ReceiverOf(fn.calls[i]).entities,
                             fn.calls[i].filters[1], fn.calls[i].filters[2])
        /\ (/\ Len(fn.calls) = 2
            /\ fn.calls[1].op = "Filter" /\ Len(fn.calls[1].filters) = 1
            /\ fn.calls[2].op = "Filter" /\ Len(fn.calls[2].filters) = 1
            /\ fn.calls[2].recv = fn.calls[1].out) =>
                 /\ ~fn.calls[2].panic
                 /\ ResultOf(fn.calls[2]).entities =
                        Both(ReceiverOf(fn.calls[1]).entities,
                             fn.calls[1].filters[1], fn.calls[2].filters[1])
                 /\ ResultOf(fn.calls[2]).entities =
                        Both(ReceiverOf(fn.calls[1]).entities,
                             fn.calls[2].filters[1], fn.calls[1].filters[1])

\* two different filters applied one after the other: an asset is removed, a published
\* entry is kept
C21_Witness ==
    /\ fn.name = "collection"
    /\ Len(fn.calls) = 2
    /\ fn.calls[1].op = "Filter" /\ fn.calls[1].filters = <<"FilterByType">>
    /\ fn.calls[2].op = "Filter" /\ fn.calls[2].filters = <<"FilterPublished">>
    /\ fn.calls[2].recv = fn.calls[1].out
    /\ fn.calls[1].recv = 1
    /\ fn.heap[1].entities = <<"e1", "a1">>
    /\ ResultOf(fn.calls[1]).entities = <<"e1">>
    /\ ResultOf(fn.calls[2]).entities = <<"e1">>

\* C22: every call of Filter, Limit, Skip and Transform, for every argument, returns a
\* new collection object distinct from the receiver, and the receiver holds the same
\* entities in the same order after the call.
C22_NewCollectionReceiverKept ==
    fn.name = "collection" =>
        \A i \in 1..Len(fn.calls) :
            /\ ~fn.calls[i].panic
            /\ fn.calls[i].out # fn.calls[i].recv
            /\ \A k \in 1..i : fn.heap[fn.calls[k].recv].entities = ReceiverOf(fn.calls[k]).entities

Min(a, b) == IF a < b THEN a ELSE b

Max(a, b) == IF a > b THEN a ELSE b

\* C23: for n >= 0 and a collection c of size s, c.Limit(n) holds the first min(n, s)
\* entities of c and c.Skip(n) the last max(s - n, 0); Limit(n) followed by Skip(n) is c;
\* Limit with n >= s changes nothing and Skip with n >= s yields an empty collection.
C23_LimitSkip ==
    fn.name = "collection" =>
        /\ \A i \in 1..Len(fn.calls) :
             LET call == fn.calls[i]
                 c == ReceiverOf(call).entities
                 s == Len(c)
             IN  (call.op \in {"Limit", "Skip"} /\ call.n >= 0) =>
                    /\ ~call.panic
                    /\ call.op = "Limit" =>
                         /\ ResultOf(call).entities = SubSeq(c, 1, Min(call.n, s))
                         /\ call.n >= s => ResultOf(call) = ReceiverOf(call)
                    /\ call.op = "Skip" =>
                         /\ Len(ResultOf(call).entities) = Max(s - call.n, 0)
                         /\ ResultOf(call).entities = SubSeq(c, s - Max(s - call.n, 0) + 1, s)
                         /\ call.n >= s => ResultOf(call).entities = <<>>
        /\ (/\ Len(fn.calls) = 2
            /\ fn.calls[1].op = "Limit" /\ fn.calls[2].op = "Skip"
            /\ fn.calls[1].recv = 1 /\ fn.calls[2].recv = 1
            /\ fn.calls[1].n = fn.calls[2].n /\ fn.calls[1].n >= 0) =>
                ResultOf(fn.calls[1]).entities \o ResultOf(fn.calls[2]).entities
                    = fn.heap[1].entities

\* a collection cut in two proper parts by Limit(n) and Skip(n)
C23_Witness ==
    /\ fn.name = "collection"
    /\ Len(fn.calls) = 2
    /\ fn.calls[1].op = "Limit" /\ fn.calls[2].op = "Skip"
    /\ fn.calls[1].recv = 1 /\ fn.calls[2].recv = 1
    /\ fn.calls[1].n = 1 /\ fn.calls[2].n = 1
    /\ Len(fn.heap[1].entities) = 2
    /\ fn.heap[1].entities[1] # fn.heap[1].entities[2]
    /\ ResultOf(fn.calls[1]).entities # <<>>
    /\ ResultOf(fn.calls[2]).entities # <<>>

\* the lines that count as acceptance: an empty line (or end of input), and y or yes
\* in any case, with or without blanks around it and the line end
AcceptedLines ==
    { <<>>, <<"\n">>, <<"y", "\n">>, <<"Y", "\n">>, <<"y", "e", "s", "\n">>,
      <<"Y", "E", "S">>, <<" ", "y", " ", "\n">> }

Cancelled == "operation cancelled by user"

\* C24: with confirmation enabled, an operation goes on to the dry-run check and the
\* dispatch only when the answer is affirmative (y or yes in any case, or an empty
\* line); any other answer records a result with Success = false and the error
\* "operation cancelled by user", makes no remote call and changes no cache state, also
\* when DryRun is enabled; the executor does not crash.
C24_CancelledByUser ==
    (options.Confirm /\ phase # "none") =>
        /\ ~crashed
        /\ \A i \in Workers :
             /\ Inside(i) =>
                  /\ hist[i].confirm \in {"yes", "no", "err"}
                  /\ hist[i].confirm = "yes" => loc[i].input \in AcceptedLines
                  /\ hist[i].confirm = "no" =>
                       (loc[i].input \in Inputs /\ loc[i].input \notin AcceptedLines)
             /\ hist[i].confirm = "no" =>
                  /\ pc[i] \in {"record", "done"}
                  /\ hist[i].calls = <<>>
                  /\ hist[i].wrote = NoEntity
                  /\ ~hist[i].evicted
                  /\ pc[i] = "record" => (~loc[i].success /\ loc[i].err = Cancelled)
                  /\ pc[i] = "done" => slots[i] = Result(ops[i], FALSE, Cancelled)
             /\ hist[i].confirm = "yes" =>
                  /\ options.DryRun =>
                       /\ pc[i] \in {"record", "done"}
                       /\ hist[i].calls = <<>>
                       /\ pc[i] = "done" => slots[i] = Result(ops[i], TRUE, "")
                  /\ (~options.DryRun /\ pc[i] = "done") =>
                       \/ hist[i].calls # <<>>
                       \/ slots[i].Error = "unsupported operation"
             /\ (pc[i] = "done" /\ slots[i].Error = Cancelled) => hist[i].confirm = "no"

\* in a dry run the first operation was accepted with an empty line and recorded, the
\* second one was answered with "no"
C24_Witness ==
    /\ options.Confirm
    /\ options.DryRun
    /\ Len(ops) = 2
    /\ pc[1] = "done"
    /\ hist[1].confirm = "yes"
    /\ slots[1].Success
    /\ pc[2] = "record"
    /\ loc[2].input = <<"n", "o", "\n">>
    /\ loc[2].err = Cancelled
    /\ cache # EmptyMap

----------------------------------------------------------------------------
(* ExecuteBatch on three operations over a loaded space, with the goroutines *)
(* scheduled fairly: every goroutine that can take a step eventually does.   *)

InitAcquire ==
    /\ remote = InitRemote
    /\ cache = Loaded(Ids)
    /\ spaceModel = [loaded |-> TRUE, Entries |-> Loaded({"e1", "e2"}),
                     Assets |-> Loaded({"a1"})]
    /\ concurrency = DefaultConcurrency
    /\ options = [DryRun |-> FALSE, Confirm |-> FALSE]
    /\ results = <<>>
    /\ phase = "none"
    /\ ops = <<>>
    /\ slots = <<>>
    /\ semCap = 0
    /\ pc = <<>>
    /\ loc = <<>>
    /\ hist = <<>>
    /\ crashed = FALSE
    /\ load = LoadIdle
    /\ fn = NoFn

\* the batches of this run: one operation for each entity of the space
AcquireBatches ==
    IF Ids \subseteq DOMAIN cache
    THEN {ToMigrationOperations(<<"e1", "e2", "a1">>, k) : k \in Operations}
    ELSE {}

\* the steps of the goroutine of operation i
Goroutine(i) ==
    \/ Begin(i)
    \/ Upsert(i)
    \/ Publish(i)
    \/ Unpublish(i)
    \/ Get(i)
    \/ Write(i)
    \/ Delete(i)
    \/ Remove(i)
    \/ Record(i)

NextAcquire ==
    \/ \E n \in -1..MaxConc : SetConcurrency(n)
    \/ \E o \in AcquireBatches : StartBatch(o)
    \/ \E i \in Workers : Goroutine(i)
    \/ BatchReturn

SpecAcquire ==
    /\ InitAcquire
    /\ [][NextAcquire]_vars
    /\ \A i \in 1..Cardinality(Ids) : WF_vars(i \in Workers /\ Goroutine(i))
    /\ WF_vars(BatchReturn)

\* C25: the concurrency level is at least 1 in every reachable state (3 after
\* construction, n after SetConcurrency(n) with n >= 1, 1 after SetConcurrency(n) with
\* n < 1), so the semaphore of ExecuteBatch has capacity >= 1 and every worker
\* eventually acquires it.
C25_ConcurrencyAtLeastOne ==
    /\ [](concurrency >= 1)
    /\ [](phase = "running" => (semCap = concurrency /\ semCap >= 1))
    /\ [][concurrency' # concurrency => concurrency' \in 1..MaxConc]_vars
    /\ \A i \in 1..Cardinality(Ids) :
         (Len(pc) >= i /\ pc[i] = "wait") ~> (Len(pc) >= i /\ pc[i] # "wait")

\* the same without the goroutines that wait: the level and the capacity only
C25_LevelAndCapacity ==
    /\ concurrency >= 1
    /\ phase = "running" => (semCap = concurrency /\ semCap >= 1)

\* the records of the running batch that belong to operation i
RecordsOf(i) == {k \in 1..Len(results) : results[k].EntityID = ops[i].EntityID}

C26_OneRecordEach ==
    /\ \A i \in Workers :
         /\ pc[i] = "done" =>
              /\ Cardinality(RecordsOf(i)) = 1
              /\ \A k \in RecordsOf(i) : results[k] = slots[i]
         /\ pc[i] # "done" => RecordsOf(i) = {}
    /\ Len(results) = Cardinality({i \in Workers : pc[i] = "done"})
    /\ phase = "returned" => Len(results) = Len(ops)
    /\ GetSuccessCount + GetErrorCount = Len(results)
    /\ GetSuccessCount = Cardinality({k \in 1..Len(results) : results[k].Success})

C26_AppendOnly ==
    \/ results' = results
    \/ /\ Len(results') = Len(results) + 1
       /\ SubSeq(results', 1, Len(results)) = results

\* C26: the recorded results are append-only and complete: every ExecuteOperation
\* appends exactly one result on every path, no append is lost when the workers of
\* ExecuteBatch run concurrently (after a batch of N operations the list is N longer),
\* earlier records are never changed or removed, and GetSuccessCount() +
\* GetErrorCount() is the length of GetResults().
C26_ResultsAppendOnlyComplete == []C26_OneRecordEach /\ [][C26_AppendOnly]_vars

\* a concurrent batch has returned with one success and one failure on record
C26_Witness ==
    /\ phase = "returned"
    /\ ~options.Confirm
    /\ ~options.DryRun
    /\ semCap >= 2
    /\ Len(ops) = 2
    /\ Len(results) = 2
    /\ GetSuccessCount = 1
    /\ GetErrorCount = 1
    /\ results[1].EntityID = ops[2].EntityID

\* C27: with confirmation enabled, ExecuteBatch runs the operations strictly one after
\* another in input order: operation i+1 is neither prompted for nor dispatched before
\* operation i has recorded its result, whatever the client's concurrency level.
C27_ConfirmIsSequential ==
    (options.Confirm /\ phase # "none") =>
        /\ \A i \in Workers :
             (pc[i] # "wait" \/ hist[i].started > 0 \/ hist[i].confirm # "-"
                 \/ hist[i].calls # <<>>) =>
                 \A j \in 1..(i - 1) : pc[j] = "done" /\ slots[j] # NoResult
        /\ Cardinality({i \in Workers : Inside(i)}) <= 1
        /\ \A k \in 1..Len(results) : results[k] = Result(ops[k], slots[k].Success, slots[k].Error)
        /\ \A k \in 1..Len(results) : pc[k] = "done"

\* with a concurrency level of 2 the second operation is at the backend after the first
\* one was recorded
C27_Witness ==
    /\ options.Confirm
    /\ ~options.DryRun
    /\ concurrency = 2
    /\ Len(ops) = 2
    /\ pc[1] = "done"
    /\ hist[1].calls # <<>>
    /\ Inside(2)
    /\ hist[2].confirm = "yes"
    /\ hist[2].calls # <<>>

----------------------------------------------------------------------------
(* The client on its own: LoadSpaceModel, RefreshEntity and RemoveEntity      *)
(* called one after the other while the backend's records come and go.  fn   *)
(* holds the locals of the RefreshEntity / RemoveEntity call and the cache   *)
(* and SpaceModel it started from.                                           *)

CacheIdle ==
    [name |-> "cache", op |-> "-", stage |-> "idle", id |-> "-", calls |-> <<>>,
     ret |-> "-", fetched |-> NoEntity, cache0 |-> EmptyMap, model0 |-> NilModel]

InitCache ==
    /\ remote = InitRemote
    /\ cache = EmptyMap
    /\ spaceModel = NilModel
    /\ concurrency = DefaultConcurrency
    /\ options = [DryRun |-> FALSE, Confirm |-> FALSE]
    /\ results = <<>>
    /\ phase = "none"
    /\ ops = <<>>
    /\ slots = <<>>
    /\ semCap = 0
    /\ pc = <<>>
    /\ loc = <<>>
    /\ hist = <<>>
    /\ crashed = FALSE
    /\ load = LoadIdle
    /\ fn = CacheIdle

\* no call of the client is under way
Quiescent == load.pc = "idle" /\ fn.stage = "idle"

\* between two calls somebody deletes a record at the backend, or creates the one that
\* is missing
BackendChange(id) ==
    /\ Quiescent
    /\ remote' = IF id \in DOMAIN remote THEN AfterDelete(id) ELSE AfterUpsert(id)
    /\ UNCHANGED <<cache, spaceModel, concurrency, options, results, phase, ops, slots,
                   semCap, pc, loc, hist, crashed, load, fn>>

\* LoadSpaceModel, between two other calls
CacheLoad ==
    /\ fn.stage = "idle"
    /\ LoadSpaceModel

\* RefreshEntity(ctx, id) is called
RefreshStart(id) ==
    /\ Quiescent
    /\ fn' = [CacheIdle EXCEPT !.op = "refresh", !.stage = "entry", !.id = id,
                               !.cache0 = cache, !.model0 = spaceModel]
    /\ UNCHANGED <<remote, cache, spaceModel, concurrency, options, results, phase, ops,
                   slots, semCap, pc, loc, hist, crashed, load>>

\* entry, err := mc.cma.Entries.Get(...) and, without an error, the writes and return nil
RefreshAsEntry ==
    /\ fn.name = "cache"
    /\ fn.stage = "entry"
    /\ \/ \E e \in {x \in Fetchable(fn.id) : x.type = "Entry"} :
            /\ cache' = RefreshCache(fn.id, e)
            /\ spaceModel' = RefreshModel(fn.id, e)
            /\ fn' = [fn EXCEPT !.stage = "returned", !.calls = Append(@, "Entries.Get"),
                                !.fetched = e, !.ret = "nil"]
       \/ /\ fn' = [fn EXCEPT !.stage = "asset", !.calls = Append(@, "Entries.Get")]
          /\ UNCHANGED <<cache, spaceModel>>
    /\ UNCHANGED <<remote, concurrency, options, results, phase, ops, slots, semCap, pc,
                   loc, hist, crashed, load>>

\* asset, err := mc.cma.Assets.Get(...): the writes and return nil, or the not-found error
RefreshAsAsset ==
    /\ fn.name = "cache"
    /\ fn.stage = "asset"
    /\ \/ \E e \in {x \in Fetchable(fn.id) : x.type = "Asset"} :
            /\ cache' = RefreshCache(fn.id, e)
            /\ spaceModel' = RefreshModel(fn.id, e)
            /\ fn' = [fn EXCEPT !.stage = "returned", !.calls = Append(@, "Assets.Get"),
                                !.fetched = e, !.ret = "nil"]
       \/ /\ fn' = [fn EXCEPT !.stage = "returned", !.calls = Append(@, "Assets.Get"),
                              !.ret = "not found"]
          /\ UNCHANGED <<cache, spaceModel>>
    /\ UNCHANGED <<remote, concurrency, options, results, phase, ops, slots, semCap, pc,
                   loc, hist, crashed, load>>

\* RemoveEntity(id)
RemoveEntity(id) ==
    /\ Quiescent
    /\ cache' = RemoveCache(id)
    /\ spaceModel' = RemoveModel(id)
    /\ fn' = [CacheIdle EXCEPT !.op = "remove", !.stage = "returned", !.id = id,
                               !.cache0 = cache, !.model0 = spaceModel]
    /\ UNCHANGED <<remote, concurrency, options, results, phase, ops, slots, semCap, pc,
                   loc, hist, crashed, load>>

\* the call has returned: its locals are gone
CallReturn ==
    /\ fn.name = "cache"
    /\ fn.stage = "returned"
    /\ fn' = CacheIdle
    /\ UNCHANGED <<remote, cache, spaceModel, concurrency, options, results, phase, ops,
                   slots, semCap, pc, loc, hist, crashed, load>>

NextCache ==
    \/ \E id \in Ids : BackendChange(id)
    \/ CacheLoad
    \/ \E id \in Ids : RefreshStart(id)
    \/ RefreshAsEntry
    \/ RefreshAsAsset
    \/ \E id \in Ids : RemoveEntity(id)
    \/ CallReturn

SpecCache == InitCache /\ [][NextCache]_vars

\* map m is map m0 with the value v at id and nothing else changed
Overwritten(m, m0, id, v) ==
    /\ DOMAIN m = DOMAIN m0 \cup {id}
    /\ m[id] = v
    /\ \A other \in DOMAIN m0 \ {id} : m[other] = m0[other]

RefreshReturned == fn.name = "cache" /\ fn.op = "refresh" /\ fn.stage = "returned"

\* the order of the fetches, the not-found case and the frame of RefreshEntity
C28_FetchesAndFrame ==
    /\ (fn.name = "cache" /\ fn.op = "refresh" /\ fn.stage \in {"entry", "asset"}) =>
         /\ cache = fn.cache0
         /\ spaceModel = fn.model0
         /\ fn.calls = IF fn.stage = "entry" THEN <<>> ELSE <<"Entries.Get">>
    /\ RefreshReturned =>
         /\ fn.calls \in {<<"Entries.Get">>, <<"Entries.Get", "Assets.Get">>}
         /\ fn.ret \in {"nil", "not found"}
         /\ fn.ret = "not found" =>
              /\ fn.calls = <<"Entries.Get", "Assets.Get">>
              /\ cache = fn.cache0
              /\ spaceModel = fn.model0
         /\ fn.ret = "nil" =>
              /\ fn.fetched.type = (IF Len(fn.calls) = 1 THEN "Entry" ELSE "Asset")
              /\ Overwritten(cache, fn.cache0, fn.id, fn.fetched)

\* C28 as stated: whenever RefreshEntity returns no error, cache[id] and the matching
\* SpaceModel bucket hold the fetched entity.
C28_RefreshOverwritesBucket ==
    /\ C28_FetchesAndFrame
    /\ (RefreshReturned /\ fn.ret = "nil") =>
         IF fn.fetched.type = "Entry"
         THEN /\ Overwritten(spaceModel.Entries, fn.model0.Entries, fn.id, fn.fetched)
              /\ spaceModel.Assets = fn.model0.Assets
         ELSE /\ Overwritten(spaceModel.Assets, fn.model0.Assets, fn.id, fn.fetched)
              /\ spaceModel.Entries = fn.model0.Entries

\* C28: RefreshEntity(id) first fetches id as an entry and, only if that fails, as an
\* asset; on the first success it overwrites cache[id] and, when a SpaceModel is loaded,
\* the matching bucket (Entries for an entry, Assets for an asset) with the fetched
\* entity and returns no error (without a loaded SpaceModel only the cache is written);
\* if both fetches fail it returns a not-found error and leaves the cache and the
\* SpaceModel unchanged; entries for every other id are never touched.
C28_RefreshEntity ==
    /\ C28_FetchesAndFrame
    /\ (RefreshReturned /\ fn.ret = "nil") =>
         /\ spaceModel.loaded = fn.model0.loaded
         /\ IF ~fn.model0.loaded THEN spaceModel = fn.model0
            ELSE IF fn.fetched.type = "Entry"
            THEN /\ Overwritten(spaceModel.Entries, fn.model0.Entries, fn.id, fn.fetched)
                 /\ spaceModel.Assets = fn.model0.Assets
            ELSE /\ Overwritten(spaceModel.Assets, fn.model0.Assets, fn.id, fn.fetched)
                 /\ spaceModel.Entries = fn.model0.Entries

\* with a loaded SpaceModel an asset was fetched after the entry fetch failed, and it
\* replaced the entity the load had put there
C28_Witness ==
    /\ RefreshReturned
    /\ fn.ret = "nil"
    /\ fn.calls = <<"Entries.Get", "Assets.Get">>
    /\ fn.model0.loaded
    /\ fn.id \in DOMAIN fn.cache0
    /\ fn.cache0[fn.id] # fn.fetched
    /\ spaceModel.Assets[fn.id] = fn.fetched
    /\ Cardinality(DOMAIN cache) = 3

\* the flat cache and the SpaceModel agree
Coherent ==
    /\ DOMAIN cache = DOMAIN spaceModel.Entries \cup DOMAIN spaceModel.Assets
    /\ DOMAIN spaceModel.Entries \cap DOMAIN spaceModel.Assets = {}
    /\ \A id \in DOMAIN spaceModel.Entries : cache[id] = spaceModel.Entries[id]
    /\ \A id \in DOMAIN spaceModel.Assets : cache[id] = spaceModel.Assets[id]

\* C29 as stated: in every state reached by successful LoadSpaceModel, RefreshEntity
\* and RemoveEntity calls, the cache and the SpaceModel agree.
C29_AlwaysCoherent == (Quiescent \/ fn.stage = "returned") => Coherent

\* C29: once a SpaceModel has been loaded, in every state reached by LoadSpaceModel,
\* RefreshEntity, RemoveEntity and the executor's calls of them, an id is in the cache
\* if and only if it is in SpaceModel.Entries or SpaceModel.Assets, it is in at most one
\* of the two buckets, and cache[id] is the bucket's entity; before the first successful
\* LoadSpaceModel there is no SpaceModel and RefreshEntity fills the cache alone.
C29_CoherentOnceLoaded ==
    /\ spaceModel.loaded => Coherent
    /\ ~spaceModel.loaded => (spaceModel = NilModel /\ \A id \in DOMAIN cache : ~cache[id].client)

\* after a load an entry was removed and an asset refreshed: the cache and the buckets
\* both hold the refreshed asset and neither holds the entry
C29_Witness ==
    /\ RefreshReturned
    /\ fn.ret = "nil"
    /\ fn.id = "a1"
    /\ spaceModel.loaded
    /\ "e1" \notin DOMAIN cache
    /\ "e1" \in DOMAIN remote
    /\ ~cache["a1"].client
    /\ spaceModel.Assets["a1"] = cache["a1"]
    /\ cache["e2"].client

----------------------------------------------------------------------------
(* EntryEntity.SetFieldValue on an entry with the fields "f" and "g" *)

\* what is written and what the locales hold before
StoredValues == {Nil, Str(""), Str("s"), [k |-> "float", n |-> 1]}

\* Entry.Fields[name]: absent, a scalar, or a locale map over some of the locales
StoredShapes ==
    {[k |-> "absent"], [k |-> "scalar"]}
        \cup {[k |-> "locmap", vals |-> m] :
                m \in UNION {[ls -> StoredValues \ {Nil}] : ls \in SUBSET {"de", "en"}}}

InitSetField ==
    /\ remote = EmptyMap
    /\ cache = EmptyMap
    /\ spaceModel = NilModel
    /\ concurrency = DefaultConcurrency
    /\ options = [DryRun |-> FALSE, Confirm |-> FALSE]
    /\ results = <<>>
    /\ phase = "none"
    /\ ops = <<>>
    /\ slots = <<>>
    /\ semCap = 0
    /\ pc = <<>>
    /\ loc = <<>>
    /\ hist = <<>>
    /\ crashed = FALSE
    /\ load = LoadIdle
    /\ \E f \in StoredShapes, g \in {[k |-> "absent"], [k |-> "scalar"],
                                     [k |-> "locmap", vals |-> [l \in {"en"} |-> Str("s")]]} :
         fn = [name |-> "setfield", fields |-> [n \in {"f", "g"} |-> IF n = "f" THEN f ELSE g],
               fields0 |-> [n \in {"f", "g"} |-> IF n = "f" THEN f ELSE g],
               field |-> "-", locale |-> "-", value |-> Nil, done |-> FALSE]

\* ee.SetFieldValue(fieldName, locale, value)
CallSetFieldValue(fieldName, locale, value) ==
    /\ fn.name = "setfield"
    /\ ~fn.done
    /\ fn' = [fn EXCEPT !.fields = SetFieldValue(fn.fields, fieldName, locale, value),
                        !.field = fieldName, !.locale = locale, !.value = value,
                        !.done = TRUE]
    /\ UNCHANGED <<remote, cache, spaceModel, concurrency, options, results, phase, ops,
                   slots, semCap, pc, loc, hist, crashed, load>>

NextSetField ==
    \E fieldName \in {"f", "g"}, locale \in {"de", "en"}, value \in StoredValues :
        CallSetFieldValue(fieldName, locale, value)

SpecSetField == InitSetField /\ [][NextSetField]_vars

\* C30: after SetFieldValue(f, l, v) the stored value of f is a locale map and
\* GetFieldValue(f, l) returns v; every other field is unchanged; when f already held a
\* locale map every other locale of f keeps its value, and when f held a non-map value
\* (or nothing) the new locale map holds only l.
C30_SetFieldValue ==
    (fn.name = "setfield" /\ fn.done) =>
        LET new == fn.fields[fn.field]
            old == fn.fields0[fn.field]
        IN  /\ new.k = "locmap"
            /\ GetFieldValue(EntryOf(fn.fields), new, fn.locale) = fn.value
            /\ \A other \in DOMAIN fn.fields \ {fn.field} : fn.fields[other] = fn.fields0[other]
            /\ DOMAIN fn.fields = DOMAIN fn.fields0
            /\ IF old.k = "locmap"
               THEN /\ DOMAIN new.vals = DOMAIN old.vals \cup {fn.locale}
                    /\ \A l \in DOMAIN old.vals \ {fn.locale} : new.vals[l] = old.vals[l]
               ELSE DOMAIN new.vals = {fn.locale}

\* the value for en was written into a locale map that held de and en: de is kept
C30_Witness ==
    /\ fn.name = "setfield"
    /\ fn.done
    /\ fn.field = "f"
    /\ fn.locale = "en"
    /\ fn.value = [k |-> "float", n |-> 1]
    /\ fn.fields0["f"].k = "locmap"
    /\ DOMAIN fn.fields0["f"].vals = {"de", "en"}
    /\ fn.fields0["f"].vals["en"] = Str("s")
    /\ fn.fields["f"].vals["de"] = fn.fields0["f"].vals["de"]
    /\ fn.fields["f"].vals["en"] = fn.value

====
